---- MODULE Spec2Model ----
(***************************************************************************)
(* A model of the document structuring pipeline of cstdtohtml: the text    *)
(* accumulator (elements.py), the TOC matcher (toc.py), the line           *)
(* classifier (parser.py), the page segmenter, StructuredPage and the page *)
(* merger (pages.py) and the ordered-list part of the HTML writer          *)
(* (htmlwriter.py).                                                        *)
(*                                                                         *)
(* Python strings are TLA+ strings; TLC evaluates Len, SubSeq and \o on    *)
(* them, so every string function below works character by character as   *)
(* the Python built-in it models.  Four characters of the source cannot   *)
(* be typed in a TLA+ string and are written with stand-ins: EMDASH,       *)
(* BULLET, MINUSSIGN and ESC.                                              *)
(***************************************************************************)
EXTENDS Integers, Sequences, FiniteSets, TLC

(***************************************************************************)
(* Python str helpers                                                      *)
(***************************************************************************)
\* U+2014 EM DASH and U+2022 BULLET, the two bullets of parser.py line 84
EMDASH == "@"
BULLET == "|"
\* U+2212 MINUS SIGN of parser.py line 103
MINUSSIGN == "~"
\* the escape character "\x1b" of pages.py line 291
ESC == "$"

WS == {" ", "\t", "\n"}
DIGITS == {"0", "1", "2", "3", "4", "5", "6", "7", "8", "9"}
UPPER == "ABCDEFGHIJKLMNOPQRSTUVWXYZ"
LOWER == "abcdefghijklmnopqrstuvwxyz"

Min(a, b) == IF a < b THEN a ELSE b
Max(a, b) == IF a < b THEN b ELSE a

\* s[i] for a 1-based index inside the string
Ch(s, i) == SubSeq(s, i, i)

\* s[a:b] with Python's 0-based bounds, 0 <= a, clamped to the string
Slice(s, a, b) == SubSeq(s, a + 1, Min(b, Len(s)))

\* s[a:]
From(s, a) == SubSeq(s, a + 1, Len(s))

\* s[:-n] and s[-n:]
DropLast(s, n) == SubSeq(s, 1, Len(s) - n)
TakeLast(s, n) == SubSeq(s, Max(1, Len(s) - n + 1), Len(s))

\* str.isspace(): non-empty and only whitespace
isspace(s) == Len(s) > 0 /\ \A i \in 1..Len(s) : Ch(s, i) \in WS

\* str.isdigit()
isdigit(s) == Len(s) > 0 /\ \A i \in 1..Len(s) : Ch(s, i) \in DIGITS

\* number of leading whitespace characters
RECURSIVE LeadWS(_)
LeadWS(s) ==
    IF Len(s) = 0 \/ Ch(s, 1) \notin WS THEN 0 ELSE 1 + LeadWS(From(s, 1))

\* number of trailing whitespace characters
RECURSIVE TrailWS(_)
TrailWS(s) ==
    IF Len(s) = 0 \/ Ch(s, Len(s)) \notin WS THEN 0
    ELSE 1 + TrailWS(DropLast(s, 1))

lstrip(s) == From(s, LeadWS(s))
rstrip(s) == DropLast(s, TrailWS(s))
strip(s) == rstrip(lstrip(s))

\* length of the leading run of non-whitespace characters
RECURSIVE LeadWord(_)
LeadWord(s) ==
    IF Len(s) = 0 \/ Ch(s, 1) \in WS THEN 0 ELSE 1 + LeadWord(From(s, 1))

\* str.split(maxsplit=n); n = -1 is no limit
RECURSIVE split(_, _)
split(s, n) ==
    LET head(t) ==
            IF Len(t) = 0 THEN << >>
            ELSE IF n = 0 THEN << t >>
            ELSE LET cut(w) ==
                         << SubSeq(t, 1, w) >>
                         \o split(From(t, w), IF n < 0 THEN n ELSE n - 1)
                 IN cut(LeadWord(t))
    IN head(lstrip(s))

\* 0-based index of the first occurrence of sub in s at or after start, or -1
RECURSIVE find(_, _, _)
find(s, sub, start) ==
    IF start + Len(sub) > Len(s) THEN -1
    ELSE IF Slice(s, start, start + Len(sub)) = sub THEN start
    ELSE find(s, sub, start + 1)

\* sub in s
contains(s, sub) == find(s, sub, 0) >= 0

\* str(n) of an int that is not negative
RECURSIVE str(_)
str(n) ==
    IF n < 10 THEN Ch("0123456789", n + 1)
    ELSE str(n \div 10) \o Ch("0123456789", (n % 10) + 1)

\* re.compile(pattern).subn(repl, string) for a pattern that matches the one
\* string pattern: the new string and the number of substitutions made
RECURSIVE subn(_, _, _)
subn(pattern, repl, string) ==
    LET joined(k, rest) ==
            [s |-> Slice(string, 0, k) \o repl \o rest.s, n |-> rest.n + 1]
        cut(k) ==
            IF k < 0 THEN [s |-> string, n |-> 0]
            ELSE joined(k, subn(pattern, repl, From(string, k + Len(pattern))))
    IN cut(find(string, pattern, 0))

startswith(s, p) == Len(p) <= Len(s) /\ SubSeq(s, 1, Len(p)) = p

\* str.split(sep, maxsplit=n) for a non-empty separator; n = -1 is no limit
RECURSIVE splitsep(_, _, _)
splitsep(s, sep, n) ==
    LET at(k) ==
            IF n = 0 \/ k < 0 THEN << s >>
            ELSE << Slice(s, 0, k) >>
                 \o splitsep(From(s, k + Len(sep)), sep,
                             IF n < 0 THEN n ELSE n - 1)
    IN at(find(s, sep, 0))

\* str.count(sub) for a one-character sub
RECURSIVE count(_, _)
count(s, c) ==
    IF Len(s) = 0 THEN 0
    ELSE (IF Ch(s, 1) = c THEN 1 ELSE 0) + count(From(s, 1), c)

\* str.lower() on ASCII letters
LowerCh(c) ==
    LET at(k) == IF k >= 0 THEN Ch(LOWER, k + 1) ELSE c
    IN at(find(UPPER, c, 0))

RECURSIVE lower(_)
lower(s) == IF Len(s) = 0 THEN "" ELSE LowerCh(Ch(s, 1)) \o lower(From(s, 1))

\* str.islower() of one character
islowerch(c) == Len(c) = 1 /\ contains(LOWER, c)

\* sep.join(seq)
RECURSIVE join(_, _)
join(sep, seq) ==
    IF Len(seq) = 0 THEN ""
    ELSE IF Len(seq) = 1 THEN seq[1]
    ELSE seq[1] \o sep \o join(sep, Tail(seq))

\* number of leading digits
RECURSIVE LeadDigits(_)
LeadDigits(s) ==
    IF Len(s) = 0 \/ Ch(s, 1) \notin DIGITS THEN 0
    ELSE 1 + LeadDigits(From(s, 1))

\* the digit groups of an int() literal: digits, single underscores between
RECURSIVE IntBody(_)
IntBody(s) ==
    LET body(d) ==
            /\ d > 0
            /\ \/ d = Len(s)
               \/ /\ Ch(s, d + 1) = "_"
                  /\ IntBody(From(s, d + 1))
    IN body(LeadDigits(s))

\* utils.isint: int(string) does not raise ValueError
isint(string) ==
    LET unsigned(t) ==
            IF Len(t) > 0 /\ Ch(t, 1) \in {"+", "-"} THEN From(t, 1) ELSE t
    IN IntBody(unsigned(strip(string)))

\* the value of a string of digits
RECURSIVE DigitsVal(_)
DigitsVal(s) ==
    IF Len(s) = 0 THEN 0
    ELSE 10 * DigitsVal(DropLast(s, 1))
         + find("0123456789", Ch(s, Len(s)), 0)

\* int(string) for a string isint accepts
RECURSIVE StripUnderscores(_)
StripUnderscores(s) ==
    IF Len(s) = 0 THEN ""
    ELSE (IF Ch(s, 1) = "_" THEN "" ELSE Ch(s, 1)) \o StripUnderscores(From(s, 1))

int(string) ==
    LET sign(t) == IF Len(t) > 0 /\ Ch(t, 1) = "-" THEN -1 ELSE 1
        unsigned(t) ==
            IF Len(t) > 0 /\ Ch(t, 1) \in {"+", "-"} THEN From(t, 1) ELSE t
        value(t) == sign(t) * DigitsVal(StripUnderscores(unsigned(t)))
    IN value(strip(string))

\* utils.groupwords
groupwords(string) ==
    LET stripped(kept) == [i \in 1..Len(kept) |-> lstrip(kept[i])]
    IN stripped(SelectSeq(splitsep(string, "  ", -1), LAMBDA p : Len(p) > 0))

(***************************************************************************)
(* elements.py                                                             *)
(***************************************************************************)
NOSTITCHING ==
    { "60559-", "bit-", "const-", "decimal-", "derived-", "encoding-to-",
      "end-of-", "execution-", "floating-", "function-", "half-",
      "implementation-", "little-", "locale-", "new-", "non-", "null-",
      "pointer-to-", "real-", "runtime-", "single-", "storage-",
      "string-from-", "type-", "va-opt-" }

\* HTTPBREAKRE.search(s): "https?:(//)?$"; $ is the end of the string or the
\* position before a final newline
HTTPBREAKRE(s) ==
    LET ends(u) == \E p \in {"http:", "https:", "http://", "https://"} :
                       Len(p) <= Len(u) /\ TakeLast(u, Len(p)) = p
    IN \/ ends(s)
       \/ Len(s) > 0 /\ Ch(s, Len(s)) = "\n" /\ ends(DropLast(s, 1))

\* the choice of concatenation with a case-sensitive look-up of the last word
Concatenation_casesensitive(cur) ==
    LET last_word(words) == words[Len(words)] IN
    IF HTTPBREAKRE(cur) THEN "first-word"
    ELSE IF Ch(cur, Len(cur)) = "-"
         THEN IF last_word(split(cur, -1)) \in NOSTITCHING THEN "first-word"
              ELSE "dehyphenate"
    ELSE "newline"

\* which of the three concatenations Text.addcontent chooses
Concatenation(cur) ==
    LET last_word(words) == words[Len(words)] IN
    IF HTTPBREAKRE(cur) THEN "first-word"
    ELSE IF Ch(cur, Len(cur)) = "-"
         THEN IF lower(last_word(split(cur, -1))) \in NOSTITCHING
              THEN "first-word"
              ELSE "dehyphenate"
    ELSE "newline"

\* addcontent that puts a space, not a newline, after the first word
addcontent_space(cur, content) ==
    LET add(concatenation, content_list) ==
            LET base == IF concatenation = "dehyphenate"
                        THEN DropLast(cur, 1) ELSE cur
            IN IF concatenation = "newline"
               THEN [content |-> cur \o "\n" \o strip(content), err |-> ""]
               ELSE IF Len(content_list) = 1
               THEN [content |-> base \o strip(content), err |-> ""]
               ELSE IF Len(content_list) = 2
               THEN [content |-> base \o strip(content_list[1]) \o " "
                                      \o strip(content_list[2]),
                     err |-> ""]
               ELSE [content |-> base, err |-> "ValueError"]
    IN IF Len(cur) = 0 THEN [content |-> strip(content), err |-> ""]
       ELSE add(Concatenation(cur), split(content, 1))

\* Text.addcontent on the content string; err is the exception it raises
addcontent(cur, content) ==
    LET add(concatenation, content_list) ==
            LET base == IF concatenation = "dehyphenate"
                        THEN DropLast(cur, 1) ELSE cur
            IN IF concatenation = "newline"
               THEN [content |-> cur \o "\n" \o strip(content), err |-> ""]
               ELSE IF Len(content_list) = 1
               THEN [content |-> base \o strip(content), err |-> ""]
               ELSE IF Len(content_list) = 2
               THEN [content |-> base \o strip(content_list[1]) \o "\n"
                                      \o strip(content_list[2]),
                     err |-> ""]
               ELSE [content |-> base, err |-> "ValueError"]
    IN IF Len(cur) = 0 THEN [content |-> strip(content), err |-> ""]
       ELSE add(Concatenation(cur), split(content, 1))

\* the classes of elements.py, each with the classes it derives from
ParagraphTypes ==
    { "Paragraph", "NumberedParagraph", "NoteParagraph", "NoteNumberParagraph",
      "NoteToEntryParagraph", "ExampleParagraph", "ExampleNumberParagraph" }
ValueDefinitionTypes == { "ValueDefinition", "NumberedValueDefinition" }
TextTypes ==
    ParagraphTypes \cup ValueDefinitionTypes
        \cup { "UnorderedListItem", "OrderedListItem" }
CodeTypes == { "Code", "NumberedCode" }
HeadingTypes == { "TitleHeading", "NumberedHeading", "NumberedTitleHeading" }

\* "no element": the value of previous when LineParser.elements is empty
None == [type |-> "None", content |-> "", lines |-> << >>, number |-> 0,
         subnumber |-> 0, value |-> "", level |-> 0, indent |-> 0,
         key |-> "", footnotes |-> {}]

isText(e) == e.type \in TextTypes
isCode(e) == e.type \in CodeTypes
isParagraph(e) == e.type \in ParagraphTypes
isValueDefinition(e) == e.type \in ValueDefinitionTypes

\* Text.__init__ for the class named by type
Text(type, content) ==
    [None EXCEPT !.type = type, !.content = strip(content)]

Paragraph(content) == Text("Paragraph", content)

\* NumberedParagraph.__init__ and the classes that inherit it
NumberedParagraph(type, number, content) ==
    [Text(type, content) EXCEPT !.number = number]

\* NoteNumberParagraph.__init__, ExampleNumberParagraph.__init__
SubNumberedParagraph(type, number, subnumber, content) ==
    [Text(type, content) EXCEPT !.number = number, !.subnumber = subnumber]

\* UnorderedListItem.__init__; err is the exception it raises
UnorderedListItem(line) ==
    LET item(parts) ==
            IF Len(parts) # 2 THEN [elem |-> None, err |-> "ValueError"]
            ELSE IF parts[1] \notin {EMDASH, BULLET}
            THEN [elem |-> None, err |-> "NotImplementedError"]
            ELSE [elem |-> [Text("UnorderedListItem", parts[2]) EXCEPT
                                !.level = IF parts[1] = EMDASH THEN 1 ELSE 2,
                                !.indent = Len(line) - Len(lstrip(line))],
                  err |-> ""]
    IN item(split(line, 1))

\* OrderedListItem.__init__; err is the exception it raises
OrderedListItem(line) ==
    LET numbered(number, content) ==
            IF ~isint(number) THEN [elem |-> None, err |-> "ValueError"]
            ELSE [elem |-> [Text("OrderedListItem", content) EXCEPT
                                !.number = int(number)],
                  err |-> ""]
        item(parts) ==
            IF Len(parts) # 2 THEN [elem |-> None, err |-> "ValueError"]
            ELSE numbered(DropLast(parts[1], 1), parts[2])
    IN item(split(line, 1))

\* TitleHeading.__init__
TitleHeading(content) ==
    [None EXCEPT !.type = "TitleHeading", !.content = strip(content)]

\* NumberedHeading.__init__
NumberedHeading(key) ==
    [None EXCEPT !.type = "NumberedHeading", !.key = strip(key)]

\* NumberedTitleHeading.__init__; err is the exception it raises
NumberedTitleHeading(line) ==
    LET heading(parts) ==
            IF Len(parts) # 2 THEN [elem |-> None, err |-> "ValueError"]
            ELSE [elem |-> [None EXCEPT !.type = "NumberedTitleHeading",
                                        !.key = strip(parts[1]),
                                        !.content = strip(parts[2])],
                  err |-> ""]
    IN heading(split(line, 1))

\* Code.__init__ with Code.addcontent
Code(content) ==
    [None EXCEPT !.type = "Code", !.lines = << rstrip(content) >>]

\* NumberedCode.__init__
NumberedCode(number, content) ==
    [Code(content) EXCEPT !.type = "NumberedCode", !.number = number]

\* ValueDefinition.__init__
ValueDefinition(value, content) ==
    LET valued(v) ==
            [Text("ValueDefinition", content) EXCEPT
                !.value = IF Ch(v, Len(v)) = ":" THEN DropLast(v, 1) ELSE v]
    IN valued(strip(value))

\* e.addcontent(line) for a Text or a Code; err is the exception it raises
ElemAddContent(e, line) ==
    LET added(r) == [elem |-> [e EXCEPT !.content = r.content], err |-> r.err]
    IN IF isCode(e)
       THEN [elem |-> [e EXCEPT !.lines = Append(@, rstrip(line))],
             err |-> ""]
       ELSE added(addcontent(e.content, line))

(***************************************************************************)
(* Regular expressions.  A compiled pattern is a sequence of tokens; Rx     *)
(* decides whether some way of matching the tokens exists, which is what   *)
(* re.match (full = FALSE) and re.fullmatch (full = TRUE) return.          *)
(***************************************************************************)
Tok(t) == [t |-> t, c |-> ""]
Lit(c) == [t |-> "lit", c |-> c]

RECURSIVE Rx(_, _, _)
Rx(toks, s, full) ==
    IF Len(toks) = 0 THEN (full => Len(s) = 0)
    ELSE
    LET tok == Head(toks)
        rest == Tail(toks)
        c == IF Len(s) = 0 THEN "" ELSE Ch(s, 1)
        s1 == From(s, 1)
    IN CASE tok.t = "lit" -> c = tok.c /\ Rx(rest, s1, full)
         \* an unescaped '.' of the pattern
         [] tok.t = "any" -> c \notin {"", "\n"} /\ Rx(rest, s1, full)
         [] tok.t = "ws*" -> \/ Rx(rest, s, full)
                             \/ c \in WS /\ Rx(toks, s1, full)
         [] tok.t = "ws+" -> c \in WS /\ Rx(<< Tok("ws*") >> \o rest, s1, full)
         [] tok.t = "ws?" -> \/ Rx(rest, s, full)
                             \/ c \in WS /\ Rx(rest, s1, full)
         [] tok.t = "nonws" -> c # "" /\ c \notin WS /\ Rx(rest, s1, full)
         [] tok.t = "digit*" -> \/ Rx(rest, s, full)
                                \/ c \in DIGITS /\ Rx(toks, s1, full)
         [] tok.t = "digit+" ->
                c \in DIGITS /\ Rx(<< Tok("digit*") >> \o rest, s1, full)
         [] tok.t = "upper" -> c # "" /\ contains(UPPER, c) /\ Rx(rest, s1, full)
         \* (\.\d+)+
         [] tok.t = "subkeys+" ->
                Rx(<< Lit("."), Tok("digit+"), Tok("subkeys*") >> \o rest,
                   s, full)
         [] tok.t = "subkeys*" ->
                \/ Rx(rest, s, full)
                \/ Rx(<< Tok("subkeys+") >> \o rest, s, full)
         \* ($|\s)
         [] tok.t = "endorws" ->
                \/ s \in {"", "\n"} /\ Rx(rest, s, full)
                \/ c \in WS /\ Rx(rest, s1, full)
         \* $
         [] tok.t = "end" -> s \in {"", "\n"} /\ Rx(rest, s, full)
         [] OTHER -> FALSE

\* the tokens of a string interpolated into a pattern: '.' matches any
\* character, letters, digits and spaces match themselves
RECURSIVE Interpolate(_)
Interpolate(title) ==
    IF Len(title) = 0 THEN << >>
    ELSE << IF Ch(title, 1) = "." THEN Tok("any") ELSE Lit(Ch(title, 1)) >>
         \o Interpolate(From(title, 1))

(***************************************************************************)
(* toc.py                                                                  *)
(***************************************************************************)
\* re.match(toc.KEYREGEX, s): (?:(?:\d+)|(?:[A-Z]\b))(?:\.\d+)+ ; the \b
\* holds whenever the '.' of the first subkey follows the letter
KEYREGEX(s) ==
    \/ Rx(<< Tok("digit+"), Tok("subkeys+") >>, s, FALSE)
    \/ Rx(<< Tok("upper"), Tok("subkeys+") >>, s, FALSE)

\* re.match(fr"{toc.CHAPTERREGEX}\.", s)
CHAPTERDOT(s) == Rx(<< Tok("digit+"), Lit(".") >>, s, FALSE)

\* the key of a TOC entry that has none
NoKey == "None"

\* a heading-stack entry that is None
NoRegex == << Tok("None") >>

\* maketitleregex that does not ask for the '.' after a chapter key
maketitleregex_nodot(title, key) ==
    IF key = NoKey
    THEN IF Slice(title, 0, 6) = "Annex "
         THEN << Tok("ws+") >> \o Interpolate(Slice(title, 0, 7))
                               \o << Tok("end") >>
         ELSE << Tok("ws*") >> \o Interpolate(title) \o << Tok("end") >>
    ELSE << Tok("ws*") >> \o Interpolate(key) \o << Tok("ws+") >>
                          \o Interpolate(title) \o << Tok("end") >>

\* TOCMatcher.__init__.maketitleregex
maketitleregex(title, key) ==
    IF key = NoKey
    THEN IF Slice(title, 0, 6) = "Annex "
         THEN << Tok("ws+") >> \o Interpolate(Slice(title, 0, 7))
                               \o << Tok("end") >>
         ELSE << Tok("ws*") >> \o Interpolate(title) \o << Tok("end") >>
    ELSE IF count(key, ".") = 0
    THEN << Tok("ws*") >> \o Interpolate(key) \o << Lit("."), Tok("ws+") >>
                          \o Interpolate(title) \o << Tok("end") >>
    ELSE << Tok("ws*") >> \o Interpolate(key) \o << Tok("ws+") >>
                          \o Interpolate(title) \o << Tok("end") >>

\* TOCMatcher.__init__.makeheadingregex
makeheadingregex(key) ==
    IF key = NoKey THEN NoRegex
    ELSE << Tok("ws*") >> \o Interpolate(key)
                          \o << Tok("subkeys+"), Tok("endorws") >>

\* reversed(seq)
reversed(seq) == [i \in 1..Len(seq) |-> seq[Len(seq) + 1 - i]]

\* TOCMatcher.__init__ that does not reverse the titles
TOCMatcher_unreversed(titles) ==
    [titlestack |-> [i \in 1..Len(titles) |->
                        maketitleregex(titles[i].title, titles[i].key)],
     headingstack |-> [i \in 1..Len(titles) |->
                          makeheadingregex(titles[i].key)] \o << NoRegex >>]

\* TOCMatcher.__init__ that does not put the None under which no heading
\* matches on the heading stack
TOCMatcher_nosentinel(titles) ==
    LET stacks(r) ==
            [titlestack |-> [i \in 1..Len(r) |->
                                maketitleregex(r[i].title, r[i].key)],
             headingstack |-> [i \in 1..Len(r) |->
                                  makeheadingregex(r[i].key)]]
    IN stacks(reversed(titles))

\* TOCMatcher.__init__: the two stacks, the top of a stack is its last entry
TOCMatcher(titles) ==
    LET stacks(r) ==
            [titlestack |-> [i \in 1..Len(r) |->
                                maketitleregex(r[i].title, r[i].key)],
             headingstack |-> [i \in 1..Len(r) |-> makeheadingregex(r[i].key)]
                                \o << NoRegex >>]
    IN stacks(reversed(titles))

\* matchtitle that forgets to pop the heading stack
matchtitle_titleonly(tm, line) ==
    IF /\ Len(tm.titlestack) > 0
       /\ Rx(tm.titlestack[Len(tm.titlestack)], line, TRUE)
    THEN [ret |-> TRUE,
          tm |-> [titlestack |-> SubSeq(tm.titlestack, 1,
                                        Len(tm.titlestack) - 1),
                  headingstack |-> tm.headingstack]]
    ELSE [ret |-> FALSE, tm |-> tm]

\* matchtitle that leaves the entry it matched on the stacks
matchtitle_kept(tm, line) ==
    [ret |-> /\ Len(tm.titlestack) > 0
             /\ Rx(tm.titlestack[Len(tm.titlestack)], line, TRUE),
     tm |-> tm]

\* matchtitle that matches no line
matchtitle_unmatched(tm, line) == [ret |-> FALSE, tm |-> tm]

\* TOCMatcher.matchtitle: the value returned and the matcher afterwards
matchtitle(tm, line) ==
    IF /\ Len(tm.titlestack) > 0
       /\ Rx(tm.titlestack[Len(tm.titlestack)], line, TRUE)
    THEN [ret |-> TRUE,
          tm |-> [titlestack |-> SubSeq(tm.titlestack, 1,
                                        Len(tm.titlestack) - 1),
                  headingstack |-> SubSeq(tm.headingstack, 1,
                                          Len(tm.headingstack) - 1)]]
    ELSE [ret |-> FALSE, tm |-> tm]

\* matchheading that looks at the entry under the top of the heading stack
matchheading_nextentry(tm, line) ==
    /\ Len(tm.headingstack) > 1
    /\ tm.headingstack[Len(tm.headingstack) - 1] # NoRegex
    /\ Rx(tm.headingstack[Len(tm.headingstack) - 1], line, FALSE)
    /\ ~startswith(line, "6.7.3.2 through 6.7.3.6")

\* TOCMatcher.matchheading: the value returned
matchheading(tm, line) ==
    /\ Len(tm.headingstack) > 0
    /\ tm.headingstack[Len(tm.headingstack)] # NoRegex
    /\ Rx(tm.headingstack[Len(tm.headingstack)], line, FALSE)
    /\ ~startswith(line, "6.7.3.2 through 6.7.3.6")

(***************************************************************************)
(* parser.py: LineParser                                                   *)
(***************************************************************************)
AFTERSYNTAX == { "Constraints", "Description", "Semantics" }
NOTINSYNTAX == 0
STARTSYNTAX == 1
STARTEDSYNTAX == 2
N3220_F3P1STARTS == { "setPayload", "convertFromHexCharacter", "restoreModes" }

\* LineParser.__init__; err is the exception a call has raised, "" if none
LineParser(indent) ==
    [elements |-> << >>, inelement |-> FALSE, indent |-> indent,
     insyntax |-> NOTINSYNTAX, inN3220_F3p1 |-> FALSE, err |-> ""]

\* self.elements.append(e); self._inelement = inel; return
AppendElement(lp, e, inel) ==
    [lp EXCEPT !.elements = Append(@, e), !.inelement = inel]

\* the same for a constructor that may raise
AppendBuilt(lp, built, inel) ==
    IF built.err # "" THEN [lp EXCEPT !.err = built.err]
    ELSE AppendElement(lp, built.elem, inel)

\* the first element, not the last, replaced by the mutated value
SetPrevious_first(lp, e) == [lp EXCEPT !.elements[1] = e]

\* previous.<mutation>: the last element replaced by its mutated value
SetPrevious(lp, e) == [lp EXCEPT !.elements[Len(lp.elements)] = e]

\* str.replace(a, b) for one-character a
RECURSIVE replace(_, _, _)
replace(s, a, b) ==
    IF Len(s) = 0 THEN ""
    ELSE (IF Ch(s, 1) = a THEN b ELSE Ch(s, 1)) \o replace(From(s, 1), a, b)

\* NewParagraph without the end of the Syntax section
NewParagraph_noend(lp, line) ==
    IF lp.insyntax # NOTINSYNTAX
    THEN [AppendElement(lp, Code(line), TRUE) EXCEPT
             !.insyntax = STARTEDSYNTAX]
    ELSE [AppendElement(lp, Paragraph(line), TRUE) EXCEPT
             !.insyntax = IF line = "Syntax" THEN STARTSYNTAX
                          ELSE lp.insyntax]

\* parser.py lines 194-206: a new paragraph, or Code inside a Syntax section
NewParagraph(lp, line) ==
    LET insyntax == IF lp.insyntax # NOTINSYNTAX /\ line \in AFTERSYNTAX
                    THEN NOTINSYNTAX ELSE lp.insyntax
    IN IF insyntax # NOTINSYNTAX
       THEN [AppendElement(lp, Code(line), TRUE) EXCEPT
                !.insyntax = STARTEDSYNTAX]
       ELSE [AppendElement(lp, Paragraph(line), TRUE) EXCEPT
                !.insyntax = IF line = "Syntax" THEN STARTSYNTAX
                             ELSE insyntax]

\* parser.py lines 175-192: the forced Code, then the continuation of text
RegularText(lp, line, previous) ==
    LET continued(r) == [SetPrevious(lp, r.elem) EXCEPT !.err = r.err] IN
    IF contains(line, "/* Yields a") \/ lp.inN3220_F3p1
    THEN IF isCode(previous)
         THEN [SetPrevious(lp, [previous EXCEPT !.lines = Append(@, line)])
                  EXCEPT !.inelement = TRUE]
         ELSE AppendElement(lp, Code(line), TRUE)
    ELSE IF lp.inelement /\ isText(previous) /\ ~isValueDefinition(previous)
    THEN continued(ElemAddContent(previous, line))
    ELSE NewParagraph(lp, line)

\* parser.py lines 139-151: maybepreviouselement; err is the exception
maybepreviouselement(previouselement, line) ==
    IF isCode(previouselement) \/ isValueDefinition(previouselement)
       \/ previouselement.type = "OrderedListItem"
    THEN [ret |-> TRUE, err |-> ""]
    ELSE IF previouselement.type = "UnorderedListItem"
    THEN LET indent == previouselement.indent + 2 IN
         IF ~isspace(Slice(line, 0, indent)) THEN [ret |-> FALSE, err |-> ""]
         ELSE IF Len(line) <= indent THEN [ret |-> FALSE, err |-> "IndexError"]
         ELSE [ret |-> ~isspace(Ch(line, indent + 1)), err |-> ""]
    ELSE [ret |-> FALSE, err |-> ""]

\* IndentedNew joining the line to the Code without the empty line
IndentedNew_noblank(lp, line, previous) ==
    IF Len(lp.elements) > 0 /\ previous.type = "UnorderedListItem"
       /\ previous.level > 1
    THEN [done |-> TRUE, lp |-> AppendElement(lp, Paragraph(line), TRUE)]
    ELSE IF isspace(Slice(line, 0, 7))
    THEN [done |-> TRUE,
          lp |-> IF isCode(previous)
                 THEN [SetPrevious(lp, [previous EXCEPT
                                   !.lines = Append(@, line)])
                          EXCEPT !.inelement = TRUE]
                 ELSE AppendElement(lp, Code(line), TRUE)]
    ELSE [done |-> FALSE, lp |-> lp]

\* IndentedNew joining a code line to any text before it, not to Code alone
IndentedNew_anytext(lp, line, previous) ==
    IF Len(lp.elements) > 0 /\ previous.type = "UnorderedListItem"
       /\ previous.level > 1
    THEN [done |-> TRUE, lp |-> AppendElement(lp, Paragraph(line), TRUE)]
    ELSE IF isspace(Slice(line, 0, 7))
    THEN [done |-> TRUE,
          lp |-> IF isCode(previous) \/ isText(previous)
                 THEN [SetPrevious(lp, [previous EXCEPT
                                   !.lines = Append(Append(@, ""), line)])
                          EXCEPT !.inelement = TRUE]
                 ELSE AppendElement(lp, Code(line), TRUE)]
    ELSE [done |-> FALSE, lp |-> lp]

\* parser.py lines 155-172: indented text that does not continue an element
IndentedNew(lp, line, previous) ==
    IF Len(lp.elements) > 0 /\ previous.type = "UnorderedListItem"
       /\ previous.level > 1
    THEN [done |-> TRUE, lp |-> AppendElement(lp, Paragraph(line), TRUE)]
    ELSE IF isspace(Slice(line, 0, 7))
    THEN [done |-> TRUE,
          lp |-> IF isCode(previous)
                 THEN [SetPrevious(lp, [previous EXCEPT
                                   !.lines = Append(Append(@, ""), line)])
                          EXCEPT !.inelement = TRUE]
                 ELSE AppendElement(lp, Code(line), TRUE)]
    ELSE [done |-> FALSE, lp |-> lp]

\* parser.py lines 135-173: indented text
IndentedText(lp, line, previous) ==
    LET continued(r) == [SetPrevious(lp, r.elem) EXCEPT !.err = r.err]
        indented(m) ==
            IF m.err # "" THEN [done |-> TRUE, lp |-> [lp EXCEPT !.err = m.err]]
            ELSE IF m.ret
            THEN [done |-> TRUE,
                  lp |-> continued(ElemAddContent(previous, line))]
            ELSE IndentedNew(lp, line, previous)
    IN IF ~isspace(Slice(line, 0, 4)) THEN [done |-> FALSE, lp |-> lp]
       ELSE indented(IF lp.inelement
                     THEN maybepreviouselement(previous, line)
                     ELSE [ret |-> FALSE, err |-> ""])

\* parser.py lines 122-133: two groups of words set apart by columns
ColumnValueDefinition(line, groups) ==
    LET columns(stripped, l) ==
            LET k == find(stripped, groups[2], l)
            IN 12 <= k /\ k <= 15 /\ isspace(Slice(stripped, l, l + 4))
    IN /\ ~isspace(Slice(line, 0, 2))
       /\ Len(groups) = 2
       /\ columns(lstrip(line), Len(groups[1]))

\* parser.py lines 95-133: value definitions
ValueDefinitions(lp, line, splits, groups) ==
    LET defined(value, content) ==
            [done |-> TRUE,
             lp |-> AppendElement(lp, ValueDefinition(value, content), TRUE)]
    IN IF Len(splits) # 2 THEN [done |-> FALSE, lp |-> lp]
       ELSE IF Len(line) <= 3
       THEN [done |-> TRUE, lp |-> [lp EXCEPT !.err = "IndexError"]]
       ELSE IF isspace(Ch(line, 4)) /\ isint(Slice(line, 0, 3))
       THEN defined(splits[1], splits[2])
       ELSE IF isspace(Ch(line, 4)) /\ Ch(line, 1) = MINUSSIGN
               /\ isint(Slice(line, 1, 3))
       THEN defined(replace(splits[1], MINUSSIGN, "-"), splits[2])
       ELSE IF Slice(splits[1], 0, 2) = "__" /\ TakeLast(splits[1], 2) = "__"
       THEN defined(splits[1], splits[2])
       ELSE IF Ch(line, 1) = "%" /\ 2 <= Len(splits[1])
       THEN defined(splits[1], splits[2])
       ELSE IF ColumnValueDefinition(line, groups)
       THEN defined(groups[1], groups[2])
       ELSE [done |-> FALSE, lp |-> lp]

\* LineParser._parselinewithoutindent: the parser and the matcher afterwards
parselinewithoutindent(lp0, line, tm) ==
    LET previous == IF Len(lp0.elements) > 0
                    THEN lp0.elements[Len(lp0.elements)] ELSE None
        table == contains(line, "Table F.2: Operation binding")
        \* the checks that follow the value definitions, in their order
        text(lp, it) ==
            IF it.done THEN it.lp ELSE RegularText(lp, line, previous)
        values(lp, vd) ==
            IF vd.done THEN vd.lp
            ELSE text(lp, IndentedText(lp, line, previous))
        classify(splits, lp, mt) ==
            IF ~table /\ Len(splits) = 0
            THEN [lp |-> [lp EXCEPT !.err = "IndexError"], tm |-> tm]
            ELSE IF Slice(lstrip(line), 0, 20) = "Forward references: "
            THEN [lp |-> AppendElement(lp, Paragraph(line), TRUE), tm |-> tm]
            ELSE IF Slice(line, 0, 8) = "o,u,x,X "
            THEN [lp |-> IF Len(splits) # 2
                         THEN [lp EXCEPT !.err = "TypeError"]
                         ELSE AppendElement(lp,
                                  ValueDefinition(splits[1], splits[2]), TRUE),
                  tm |-> tm]
            ELSE IF mt.ret
            THEN [lp |-> IF KEYREGEX(splits[1]) \/ CHAPTERDOT(splits[1])
                         THEN AppendBuilt(lp, NumberedTitleHeading(line), FALSE)
                         ELSE AppendElement(lp, TitleHeading(line), FALSE),
                  tm |-> mt.tm]
            ELSE IF matchheading(tm, line) /\ ~lp.inN3220_F3p1
            THEN [lp |-> IF Len(splits) = 2
                         THEN AppendBuilt(lp, NumberedTitleHeading(line), FALSE)
                         ELSE AppendElement(lp, NumberedHeading(line), FALSE),
                  tm |-> tm]
            ELSE IF Ch(splits[1], 1) \in {EMDASH, BULLET}
            THEN [lp |-> AppendBuilt(lp, UnorderedListItem(line), TRUE),
                  tm |-> tm]
            ELSE IF isdigit(DropLast(splits[1], 1))
                    /\ TakeLast(splits[1], 1) = "."
            THEN [lp |-> AppendBuilt(lp, OrderedListItem(line), TRUE),
                  tm |-> tm]
            ELSE [lp |-> values(lp, ValueDefinitions(lp, line, splits,
                                                     groupwords(line))),
                  tm |-> tm]
        flagged(splits) ==
            classify(splits,
                     IF table \/ (Len(splits) > 0
                                  /\ splits[1] \in N3220_F3P1STARTS)
                     THEN [lp0 EXCEPT !.inN3220_F3p1 = TRUE] ELSE lp0,
                     matchtitle(tm, line))
    IN flagged(split(line, 1))

\* MarginParagraph making a plain NumberedParagraph of every line
MarginParagraph_plain(num, unindented) ==
    [elem |-> NumberedParagraph("NumberedParagraph", num, unindented),
     err |-> ""]

\* parser.py lines 227-249: the numbered paragraph a margin number starts
MarginParagraph(num, unindented) ==
    LET paragraph(splits, firstword, secondisint) ==
            LET restfrom(k) == join(" ", SubSeq(splits, k, Len(splits))) IN
            IF firstword = "NOTE"
            THEN [elem |-> IF secondisint
                           THEN SubNumberedParagraph("NoteNumberParagraph",
                                    num, int(splits[2]), restfrom(3))
                           ELSE NumberedParagraph("NoteParagraph", num,
                                    restfrom(2)),
                  err |-> ""]
            ELSE IF firstword = "Note" /\ secondisint /\ Len(splits) < 3
            THEN [elem |-> None, err |-> "IndexError"]
            ELSE IF firstword = "Note" /\ secondisint
                    /\ startswith(splits[3], "to entry: ")
            THEN [elem |-> SubNumberedParagraph("NoteToEntryParagraph", num,
                               int(splits[2]), From(splits[3], 10)),
                  err |-> ""]
            ELSE IF firstword = "EXAMPLE"
            THEN [elem |-> IF secondisint
                           THEN SubNumberedParagraph("ExampleNumberParagraph",
                                    num, int(splits[2]), restfrom(3))
                           ELSE NumberedParagraph("ExampleParagraph", num,
                                    restfrom(2)),
                  err |-> ""]
            ELSE [elem |-> NumberedParagraph("NumberedParagraph", num,
                                             unindented),
                  err |-> ""]
        words(splits) ==
            paragraph(splits, IF Len(splits) > 0 THEN splits[1] ELSE "",
                      2 <= Len(splits) /\ isint(splits[2]))
    IN words(split(unindented, 2))

\* parselinewithindent with the long table left on by a numbered paragraph
parselinewithindent_tablekept(lp, line, indent, tm) ==
    LET numbered(num, unindented) ==
            IF isspace(Slice(unindented, 0, 7)) \/ lp.insyntax = STARTSYNTAX
            THEN AppendElement(lp, NumberedCode(num, unindented), TRUE)
            ELSE AppendBuilt([lp EXCEPT !.insyntax = NOTINSYNTAX],
                             MarginParagraph(num, unindented), TRUE)
    IN IF isspace(Slice(line, 0, indent))
       THEN parselinewithoutindent(lp, From(line, indent), tm)
       ELSE IF ~isint(Slice(line, 0, indent))
       THEN [lp |-> [lp EXCEPT !.err = "ValueError"], tm |-> tm]
       ELSE [lp |-> numbered(int(Slice(line, 0, indent)), From(line, indent)),
             tm |-> tm]

\* LineParser._parselinewithindent
parselinewithindent(lp, line, indent, tm) ==
    LET numbered(num, unindented) ==
            IF isspace(Slice(unindented, 0, 7)) \/ lp.insyntax = STARTSYNTAX
            THEN AppendElement(lp, NumberedCode(num, unindented), TRUE)
            ELSE AppendBuilt([lp EXCEPT !.insyntax = NOTINSYNTAX,
                                        !.inN3220_F3p1 = FALSE],
                             MarginParagraph(num, unindented), TRUE)
    IN IF isspace(Slice(line, 0, indent))
       THEN parselinewithoutindent(lp, From(line, indent), tm)
       ELSE IF ~isint(Slice(line, 0, indent))
       THEN [lp |-> [lp EXCEPT !.err = "ValueError"], tm |-> tm]
       ELSE [lp |-> numbered(int(Slice(line, 0, indent)), From(line, indent)),
             tm |-> tm]

\* LineParser.parseline with forceindent (-1 stands for None)
parseline(lp, line, tm, forceindent) ==
    LET indent == IF forceindent = -1 THEN lp.indent ELSE forceindent IN
    IF Len(line) = 0 THEN [lp |-> [lp EXCEPT !.inelement = FALSE], tm |-> tm]
    ELSE IF indent = 0 THEN parselinewithoutindent(lp, line, tm)
    ELSE parselinewithindent(lp, line, indent, tm)

(***************************************************************************)
(* pages.py: Page                                                          *)
(***************************************************************************)
\* seq[i] for a Python index i, which may be negative
PyValid(seq, i) == 0 - Len(seq) <= i /\ i < Len(seq)
PyGet(seq, i) == IF i < 0 THEN seq[Len(seq) + i + 1] ELSE seq[i + 1]

\* seq[a:b] for Python bounds, which may be negative
PyBound(seq, i) ==
    IF i < 0 THEN Max(0, Len(seq) + i) ELSE Min(i, Len(seq))
PySlice(seq, a, b) == SubSeq(seq, PyBound(seq, a) + 1, PyBound(seq, b))

\* the value of an index a loop has run out of the list with (IndexError)
OutOfRange == -1000

\* while not lines[i]: i += step  (OutOfRange when lines[i] raises)
RECURSIVE SkipEmpty(_, _, _)
SkipEmpty(lines, i, step) ==
    IF ~PyValid(lines, i) THEN OutOfRange
    ELSE IF PyGet(lines, i) = "" THEN SkipEmpty(lines, i + step, step)
    ELSE i

\* while lines[i]: i += step  (OutOfRange when lines[i] raises)
RECURSIVE SkipNonEmpty(_, _, _)
SkipNonEmpty(lines, i, step) ==
    IF ~PyValid(lines, i) THEN OutOfRange
    ELSE IF PyGet(lines, i) # "" THEN SkipNonEmpty(lines, i + step, step)
    ELSE i

\* Page.__init__.checkonlynumbersinmargin
checkonlynumbersinmargin(lines, margin) ==
    \/ margin = 0
    \/ \A k \in 1..Len(lines) :
           Len(strip(Slice(lines[k], 0, margin))) > 0
               => isint(Slice(lines[k], 0, margin))

\* the length of the longest line
MaxLineLen(lines) ==
    IF Len(lines) = 0 THEN 0
    ELSE CHOOSE n \in { Len(lines[k]) : k \in 1..Len(lines) } :
             \A k \in 1..Len(lines) : Len(lines[k]) <= n

\* the value of indent when the upward probe never stops
Diverges == -2000

\* pages.py lines 89-92: while checkonlynumbersinmargin(..): indent += 1.
\* Beyond the longest line, line[:margin] is the whole line for every margin,
\* so a check that holds there holds for ever and the loop does not end.
RECURSIVE ProbeUp(_, _)
ProbeUp(lines, indent) ==
    IF ~checkonlynumbersinmargin(lines, indent) THEN indent
    ELSE IF indent > MaxLineLen(lines) THEN Diverges
    ELSE ProbeUp(lines, indent + 1)

\* ProbeDown that looks at the first line only
RECURSIVE ProbeDown_firstline(_, _)
ProbeDown_firstline(lines, indent) ==
    IF indent > 0 /\ ~checkonlynumbersinmargin(SubSeq(lines, 1, 1), indent)
    THEN ProbeDown_firstline(lines, indent - 1)
    ELSE indent

\* pages.py lines 95-97
RECURSIVE ProbeDown(_, _)
ProbeDown(lines, indent) ==
    IF indent > 0 /\ ~checkonlynumbersinmargin(lines, indent)
    THEN ProbeDown(lines, indent - 1)
    ELSE indent

\* pages.py lines 68-101: the margin of the content lines
ComputeIndent(contentlines) ==
    LET probed(up) == IF up = Diverges THEN Diverges ELSE up - 1
        margin(widths, second) ==
            IF 2 <= Cardinality(widths) /\ 0 \in widths
            THEN IF checkonlynumbersinmargin(contentlines, second)
                 THEN probed(ProbeUp(contentlines, second + 1))
                 ELSE ProbeDown(contentlines, second)
            ELSE 0
        indents(widths) ==
            margin(widths,
                   CHOOSE w \in widths \ {0} : \A v \in widths \ {0} : w <= v)
    IN indents({ Len(contentlines[k]) - Len(lstrip(contentlines[k])) :
                   k \in { j \in 1..Len(contentlines) :
                             contentlines[j] # "" } })

\* the Page when construction does not return one
NoPage(err) ==
    [header |-> << >>, footer |-> << >>, content |-> << >>, indent |-> 0,
     err |-> err]

\* Page.__init__: err is "" when a Page is returned, the exception raised,
\* or "hang" when the constructor does not return
Page(page) ==
    LET stripped(f) == [k \in 1..Len(f) |-> lstrip(f[k])]
        returned(lines, headerbegin, headerend, footerbegin, footerend,
                 contentlines, indent) ==
            IF indent = Diverges THEN NoPage("hang")
            ELSE [header |-> [k \in 1..(headerend - headerbegin) |->
                                 lstrip(lines[headerbegin + k])],
                  footer |-> stripped(PySlice(lines, footerbegin, footerend)),
                  content |-> contentlines,
                  indent |-> indent,
                  err |-> ""]
        margin(lines, headerbegin, headerend, footerbegin, footerend,
               contentlines) ==
            returned(lines, headerbegin, headerend, footerbegin, footerend,
                     contentlines, ComputeIndent(contentlines))
        \* contentbegin and cend = contentend - 1, as the two loops leave them
        content(lines, headerbegin, headerend, fb, fe, contentbegin, cend) ==
            IF OutOfRange \in {contentbegin, cend} THEN NoPage("IndexError")
            ELSE margin(lines, headerbegin, headerend, fb + 1, fe + 1,
                        PySlice(lines, contentbegin, cend + 1))
        \* headerend, and fb = footerbegin - 1
        blocks(lines, headerbegin, headerend, fb, fe) ==
            IF OutOfRange \in {headerend, fb} THEN NoPage("IndexError")
            ELSE content(lines, headerbegin, headerend, fb, fe,
                         SkipEmpty(lines, headerend + 1, 1),
                         SkipEmpty(lines, fb - 1, -1))
        \* headerbegin, and fe = footerend - 1
        ends(lines, headerbegin, fe) ==
            IF OutOfRange \in {headerbegin, fe} THEN NoPage("IndexError")
            ELSE blocks(lines, headerbegin,
                        SkipNonEmpty(lines, headerbegin + 1, 1),
                        SkipNonEmpty(lines, fe - 1, -1), fe)
        probes(lines) ==
            ends(lines, SkipEmpty(lines, 0, 1),
                 SkipEmpty(lines, Len(lines) - 1, -1))
        rstripped(raw) == probes([k \in 1..Len(raw) |-> rstrip(raw[k])])
    IN rstripped(splitsep(page, "\n", -1))

(***************************************************************************)
(* pages.py: StructuredPage                                                *)
(***************************************************************************)
\* footnoteregex.match(line): ^\s+\d+\)\s?\S
footnoteregex(line) ==
    Rx(<< Tok("ws+"), Tok("digit+"), Lit(")"), Tok("ws?"), Tok("nonws") >>,
       line, FALSE)

\* BodyLines that does not stop at a footnote line
RECURSIVE BodyLines_nostop(_, _, _, _)
BodyLines_nostop(lp, tm, content, i) ==
    LET parsed(r) ==
            IF r.lp.err # "" THEN [lp |-> r.lp, tm |-> r.tm, i |-> i]
            ELSE BodyLines_nostop(r.lp, r.tm, content, i + 1)
    IN IF i >= Len(content)
       THEN [lp |-> lp, tm |-> tm, i |-> i]
       ELSE parsed(parseline(lp, content[i + 1], tm, -1))

\* pages.py lines 123-130: parse lines until the first footnote line;
\* i is a 0-based index into content
RECURSIVE BodyLines(_, _, _, _)
BodyLines(lp, tm, content, i) ==
    LET parsed(r) ==
            IF r.lp.err # "" THEN [lp |-> r.lp, tm |-> r.tm, i |-> i]
            ELSE BodyLines(r.lp, r.tm, content, i + 1)
    IN IF i >= Len(content) \/ footnoteregex(content[i + 1])
       THEN [lp |-> lp, tm |-> tm, i |-> i]
       ELSE parsed(parseline(lp, content[i + 1], tm, -1))

\* the position of a footnote id in the dict, 0 if it is not a key
FootnoteIndex(footnotes, id) ==
    IF \E k \in 1..Len(footnotes) : footnotes[k].id = id
    THEN CHOOSE k \in 1..Len(footnotes) : footnotes[k].id = id
    ELSE 0

\* a dict that keeps the value of a key it already has
DictSet_kept(footnotes, id, value) ==
    IF FootnoteIndex(footnotes, id) = 0
    THEN Append(footnotes, [id |-> id, lp |-> value])
    ELSE footnotes

\* footnotes[id] = value: a dict keeps the position of a key it already has
DictSet(footnotes, id, value) ==
    LET set(k) ==
            IF k = 0 THEN Append(footnotes, [id |-> id, lp |-> value])
            ELSE [footnotes EXCEPT ![k].lp = value]
    IN set(FootnoteIndex(footnotes, id))

\* pages.py lines 140-158: the footnote lines; footnotes is the dict of
\* parsers in insertion order, lastfootnote is -1 for None
RECURSIVE FootnoteLines(_, _, _, _, _, _)
FootnoteLines(footnotes, lastfootnote, tm, content, i, indent) ==
    LET \* the line parsed by the parser of footnote, at position k of dict
        parsed(footnote, dict, k, r) ==
            IF r.lp.err # ""
            THEN [footnotes |-> [dict EXCEPT ![k].lp = r.lp], tm |-> r.tm,
                  err |-> r.lp.err]
            ELSE FootnoteLines([dict EXCEPT ![k].lp = r.lp], footnote, r.tm,
                               content, i + 1, indent)
        \* dict[footnote].parseline(text, tocmatcher, forceindent)
        lookup(footnote, dict, k, text, forceindent) ==
            IF k = 0
            THEN [footnotes |-> dict, tm |-> tm, err |-> "KeyError"]
            ELSE parsed(footnote, dict, k,
                        parseline(dict[k].lp, text, tm, forceindent))
        \* the parser to use: dict[footnote], and what it is given
        parser(use) ==
            lookup(use.footnote, use.dict,
                   FootnoteIndex(use.dict, use.footnote), use.text,
                   use.forceindent)
        \* footnotes[footnote] = LineParser(indent)
        numbered(footnote, text) ==
            [footnote |-> footnote,
             dict |-> DictSet(footnotes, footnote, LineParser(indent)),
             text |-> text, forceindent |-> 0]
        split2(parts) == numbered(int(parts[1]), parts[2])
        footnoteline(line) ==
            parser(IF footnoteregex(line) THEN split2(splitsep(line, ")", 1))
                   ELSE [footnote |-> lastfootnote, dict |-> footnotes,
                         text |-> line, forceindent |-> -1])
    IN IF i >= Len(content)
       THEN [footnotes |-> footnotes, tm |-> tm, err |-> ""]
       ELSE footnoteline(content[i + 1])

\* StructuredPage.__init__: the page built, the matcher afterwards and the
\* exception raised; footnotes lists the (id, elements) items of the dict
StructuredPage(page, tocmatcher, startline) ==
    LET structured(body, foot) ==
            [elements |-> body.lp.elements,
             footnotes |-> [k \in 1..Len(foot.footnotes) |->
                               [id |-> foot.footnotes[k].id,
                                elements |-> foot.footnotes[k].lp.elements]],
             tm |-> foot.tm,
             err |-> foot.err]
        footnotes(body) ==
            IF body.lp.err # ""
            THEN [elements |-> body.lp.elements, footnotes |-> << >>,
                  tm |-> body.tm, err |-> body.lp.err]
            ELSE structured(body,
                            FootnoteLines(<< >>, -1, body.tm, page.content,
                                          body.i, page.indent))
    IN footnotes(BodyLines(LineParser(page.indent), tocmatcher, page.content,
                           startline))

(***************************************************************************)
(* pages.py: putfootnoteplaceholders                                       *)
(***************************************************************************)
\* _putfootnoteplaceholder that does not skip the 'Forward references: '
putfootnoteplaceholder_forward(elems, footnote) ==
    LET regex == str(footnote) \o ")"
        placeholder == ESC \o "footnote" \o str(footnote) \o ESC
        code(elem, subs) ==
            [elem EXCEPT !.lines = [i \in 1..Len(subs) |-> subs[i].s],
                         !.footnotes =
                             IF \E i \in 1..Len(subs) : 0 < subs[i].n
                             THEN @ \cup { footnote } ELSE @]
        textelem(elem, sub) ==
            [elem EXCEPT !.content = sub.s,
                         !.footnotes = IF 0 < sub.n THEN @ \cup { footnote }
                                       ELSE @]
        put(elem) ==
            IF isCode(elem)
            THEN code(elem, [i \in 1..Len(elem.lines) |->
                                subn(regex, placeholder, elem.lines[i])])
            ELSE IF isText(elem)
            THEN textelem(elem, subn(regex, placeholder, elem.content))
            ELSE elem
    IN [k \in 1..Len(elems) |-> put(elems[k])]

\* StructuredPage._putfootnoteplaceholder: self.elements afterwards
putfootnoteplaceholder(elems, footnote) ==
    LET regex == str(footnote) \o ")"
        placeholder == ESC \o "footnote" \o str(footnote) \o ESC
        code(elem, subs) ==
            [elem EXCEPT !.lines = [i \in 1..Len(subs) |-> subs[i].s],
                         !.footnotes =
                             IF \E i \in 1..Len(subs) : 0 < subs[i].n
                             THEN @ \cup { footnote } ELSE @]
        textelem(elem, sub) ==
            [elem EXCEPT !.content = sub.s,
                         !.footnotes = IF 0 < sub.n THEN @ \cup { footnote }
                                       ELSE @]
        put(elem) ==
            IF isCode(elem)
            THEN code(elem, [i \in 1..Len(elem.lines) |->
                                subn(regex, placeholder, elem.lines[i])])
            ELSE IF isText(elem)
            THEN IF Slice(elem.content, 0, 20) = "Forward references: "
                 THEN elem
                 ELSE textelem(elem, subn(regex, placeholder, elem.content))
            ELSE elem
    IN [k \in 1..Len(elems) |-> put(elems[k])]

\* StructuredPage.putfootnoteplaceholders: self.elements afterwards, the
\* keys of self.footnotes taken from the k-th on
RECURSIVE putfootnoteplaceholders(_, _, _)
putfootnoteplaceholders(elems, footnotes, k) ==
    IF k > Len(footnotes) THEN elems
    ELSE putfootnoteplaceholders(
             putfootnoteplaceholder(elems, footnotes[k].id), footnotes, k + 1)

(***************************************************************************)
(* pages.py: reworkfootnotes                                               *)
(***************************************************************************)
\* pages.py lines 203-231: the first element of a footnote made a paragraph
\* of more than one word; err is the exception raised
ReworkFirst(elems) ==
    LET oneword(first) ==
            IF Len(elems) < 2
            THEN [elems |-> elems, err |-> "IndexError"]
            ELSE IF isCode(elems[2])
            THEN [elems |->
                      << [first EXCEPT
                             !.content = @ \o " " \o elems[2].lines[1]] >>
                      \o [k \in 1..(Len(elems[2].lines) - 1) |->
                             Paragraph(elems[2].lines[k + 1])]
                      \o SubSeq(elems, 3, Len(elems)),
                  err |-> ""]
            ELSE [elems |-> elems, err |-> ""]
        paragraph(first, splits) ==
            IF Len(splits) = 2
            THEN [elems |-> [elems EXCEPT ![1] = Paragraph(join(" ", splits))],
                  err |-> ""]
            ELSE oneword(first)
    IN IF isParagraph(elems[1])
       THEN paragraph(elems[1], split(elems[1].content, 1))
       ELSE IF isValueDefinition(elems[1])
       THEN [elems |-> [elems EXCEPT
                           ![1] = Paragraph(elems[1].value \o " "
                                            \o elems[1].content)],
             err |-> ""]
       ELSE [elems |-> elems, err |-> ""]

\* the merge of reworkfootnotes that appends every element as it is
MergeParagraphs_apart(elems, i, newelems, at, islastaparagraph) ==
    [elems |-> elems, err |-> ""]

\* pages.py lines 233-249: paragraphs that follow one another merged, and
\* the list items after a paragraph put into it; i is the element looked at,
\* at the place in elems of the last of newelems, which is the same object;
\* when addcontent raises, the list of the footnote is still elems
RECURSIVE MergeParagraphs(_, _, _, _, _)
MergeParagraphs(elems, i, newelems, at, islastaparagraph) ==
    LET added(r) ==
            IF r.err # "" THEN [elems |-> elems, err |-> r.err]
            ELSE MergeParagraphs([elems EXCEPT ![at] = r.elem], i + 1,
                                 [newelems EXCEPT ![Len(newelems)] = r.elem],
                                 at, TRUE)
        last == newelems[Len(newelems)]
    IN IF i > Len(elems) THEN [elems |-> newelems, err |-> ""]
       ELSE IF isParagraph(elems[i])
       THEN IF islastaparagraph
            THEN added(ElemAddContent(last, elems[i].content))
            ELSE MergeParagraphs(elems, i + 1, Append(newelems, elems[i]),
                                 i, TRUE)
       ELSE IF islastaparagraph /\ elems[i].type = "UnorderedListItem"
       THEN added(ElemAddContent(last, EMDASH \o " " \o elems[i].content))
       ELSE MergeParagraphs(elems, i + 1, Append(newelems, elems[i]), i,
                            FALSE)

\* StructuredPage.reworkfootnotes: the footnotes from the k-th on; err is
\* the exception raised, and footnotes what the dict holds then
RECURSIVE reworkfootnotes(_, _)
reworkfootnotes(footnotes, k) ==
    LET reworked(r) ==
            IF r.err # ""
            THEN [footnotes |-> [footnotes EXCEPT ![k].elements = r.elems],
                  err |-> r.err]
            ELSE reworkfootnotes([footnotes EXCEPT ![k].elements = r.elems],
                                 k + 1)
        first(r) ==
            IF r.err # "" THEN [footnotes |-> footnotes, err |-> r.err]
            ELSE reworked(MergeParagraphs(r.elems, 1, << >>, 0, FALSE))
    IN IF k > Len(footnotes) THEN [footnotes |-> footnotes, err |-> ""]
       ELSE IF Len(footnotes[k].elements) = 0
       THEN reworkfootnotes(footnotes, k + 1)
       ELSE first(ReworkFirst(footnotes[k].elements))

(***************************************************************************)
(* pages.py: mergepages                                                    *)
(***************************************************************************)
\* the footnote ids of a page
FootnoteIds(page) == { page.footnotes[k].id : k \in 1..Len(page.footnotes) }

\* pages.py lines 373-376: the footnotes of page put into merge
RECURSIVE MergeFootnotes(_, _, _)
MergeFootnotes(merge, page, k) ==
    IF k > Len(page.footnotes) THEN [merge |-> merge, err |-> ""]
    ELSE IF FootnoteIndex(merge.footnotes, page.footnotes[k].id) # 0
    THEN [merge |-> merge, err |-> "KeyError"]
    ELSE MergeFootnotes(
             [merge EXCEPT !.footnotes = Append(@, page.footnotes[k])],
             page, k + 1)

\* a.addcontent(line) for each line of lines, until one raises
RECURSIVE AddLines(_, _)
AddLines(e, lines) ==
    LET added(r) == IF r.err # "" THEN r ELSE AddLines(r.elem, Tail(lines))
    IN IF Len(lines) = 0 THEN [elem |-> e, err |-> ""]
       ELSE added(ElemAddContent(e, Head(lines)))

\* Repair with the text repair made whatever the first character is
Repair_anycase(merge, page) ==
    IF Len(merge.elements) = 0 THEN "IndexError"
    ELSE
    LET last == merge.elements[Len(merge.elements)] IN
    IF isCode(last)
    THEN IF Len(page.elements) = 0 THEN "IndexError"
         ELSE IF page.elements[1].type = "Code" THEN "code"
         ELSE "none"
    ELSE IF isText(last)
    THEN IF Len(page.elements) = 0 THEN "IndexError"
         ELSE IF page.elements[1].type = "Paragraph"
         THEN IF Len(page.elements[1].content) = 0 THEN "IndexError"
              ELSE "text"
         ELSE IF isValueDefinition(last) /\ page.elements[1].type = "Code"
         THEN "definition"
         ELSE "none"
    ELSE "none"

\* pages.py lines 349-370: which repair joins the last element of merge and
\* the first element of page; "IndexError" when an index is out of range
Repair(merge, page) ==
    IF Len(merge.elements) = 0 THEN "IndexError"
    ELSE
    LET last == merge.elements[Len(merge.elements)] IN
    IF isCode(last)
    THEN IF Len(page.elements) = 0 THEN "IndexError"
         ELSE IF page.elements[1].type = "Code" THEN "code"
         ELSE "none"
    ELSE IF isText(last)
    THEN IF Len(page.elements) = 0 THEN "IndexError"
         ELSE IF page.elements[1].type = "Paragraph"
         THEN IF Len(page.elements[1].content) = 0 THEN "IndexError"
              ELSE IF islowerch(Ch(page.elements[1].content, 1)) THEN "text"
              ELSE "none"
         ELSE IF isValueDefinition(last) /\ page.elements[1].type = "Code"
         THEN "definition"
         ELSE "none"
    ELSE "none"

\* pages.py lines 348-376, one turn of the loop: merge and page afterwards
MergeOne(merge, page) ==
    LET n == Len(merge.elements)
        \* lines 372-376
        footnotes(m, p) == [merge |-> m.merge, page |-> p, err |-> m.err]
        extended(mg, p) ==
            footnotes(MergeFootnotes([mg EXCEPT !.elements = @ \o p.elements],
                                     p, 1), p)
        repaired(mg, popped, err) ==
            IF err # "" THEN [merge |-> mg, page |-> popped, err |-> err]
            ELSE extended(mg, popped)
        \* lines 353-354, 361-362, 369-370: the footnotes and the pop(0)
        joined(r, cut) ==
            repaired([merge EXCEPT !.elements[n] =
                         [r.elem EXCEPT !.footnotes =
                             IF r.err = "" THEN @ \cup cut.footnotes ELSE @]],
                     [page EXCEPT !.elements = Tail(@)],
                     r.err)
        mended(repair, last, cut) ==
            joined(IF repair = "code"
                   THEN [elem |-> [last EXCEPT !.lines = @ \o cut.lines],
                         err |-> ""]
                   ELSE IF repair = "text"
                   THEN ElemAddContent(last, cut.content)
                   ELSE AddLines(last, cut.lines),
                   cut)
        decided(repair) ==
            IF repair = "IndexError"
            THEN [merge |-> merge, page |-> page, err |-> "IndexError"]
            ELSE IF repair = "none" THEN extended(merge, page)
            ELSE mended(repair, merge.elements[n], page.elements[1])
    IN decided(Repair(merge, page))

\* pages.py lines 348-377: the loop over pages[1:].  done holds the pages
\* already seen, as the loop leaves them.  merge.elements += page.elements
\* puts the element objects of page into merge, so a later repair of the last
\* element of merge also changes the page that owns it: owner is the position
\* in done of that page, 0 for the deep copy of pages[0].
RECURSIVE MergeLoop(_, _, _, _)
MergeLoop(merge, done, todo, owner) ==
    LET n == Len(merge.elements)
        next(r, seen) ==
            IF r.err # ""
            THEN [merge |-> r.merge, pages |-> seen \o Tail(todo),
                  err |-> r.err]
            ELSE MergeLoop(r.merge, seen, Tail(todo),
                           IF Len(r.page.elements) > 0 THEN Len(seen)
                           ELSE owner)
        shared(r, isrepair) ==
            next(r, Append(IF isrepair /\ owner # 0
                           THEN [done EXCEPT
                                    ![owner].elements[Len(done[owner].elements)]
                                        = r.merge.elements[n]]
                           ELSE done,
                           r.page))
        turn(page) ==
            shared(MergeOne(merge, page),
                   Repair(merge, page) \in {"code", "text", "definition"})
    IN IF Len(todo) = 0 THEN [merge |-> merge, pages |-> done, err |-> ""]
       ELSE turn(Head(todo))

\* mergepages: the merged page, the pages given as they are afterwards, and
\* the exception raised
mergepages(pages) ==
    IF Len(pages) = 0
    THEN [merge |-> [elements |-> << >>, footnotes |-> << >>],
          pages |-> pages, err |-> "IndexError"]
    ELSE MergeLoop(pages[1], << pages[1] >>, Tail(pages), 0)

(***************************************************************************)
(* htmlwriter.py: eatStructuredPage.  A Tag is modelled by its tag name    *)
(* and, for the li of an ordered list, its number; root lists the tags     *)
(* added to the root tag.  The text put into the tags (htmlformat) does    *)
(* not take part in any decision of eatStructuredPage and is left out.     *)
(***************************************************************************)
Tag(tag) == [tag |-> tag, number |-> 0]

\* before the first element (for a page that is not a CoverPage)
EatStart ==
    [tagstack |-> << >>, root |-> << >>, key |-> "None", todump |-> {},
     dumped |-> {}, err |-> ""]

\* footnotetohtml raises for an element that is not exactly a Paragraph or a
\* Code; page.footnotes[footnote] raises for an id that is not a key
DumpError(page, todump) ==
    IF \E f \in todump : FootnoteIndex(page.footnotes, f) = 0 THEN "KeyError"
    ELSE IF \E f \in todump :
              LET elems == page.footnotes[FootnoteIndex(page.footnotes, f)].elements
              IN \E k \in 1..Len(elems) :
                     elems[k].type \notin {"Paragraph", "Code"}
    THEN "ValueError"
    ELSE ""

\* the ids of a set in increasing order
RECURSIVE sorted(_)
sorted(S) ==
    IF S = {} THEN << >>
    ELSE LET m == CHOOSE x \in S : \A y \in S : x <= y IN
         << m >> \o sorted(S \ {m})

\* eatStructuredPage.dumpfootnotes
dumpfootnotes(st, page) ==
    IF DumpError(page, st.todump) # ""
    THEN [st EXCEPT !.err = DumpError(page, st.todump)]
    ELSE [st EXCEPT
             !.root = @ \o [k \in 1..Cardinality(st.todump) |-> "div"],
             !.tagstack = << >>,
             !.dumped = @ \cup st.todump,
             !.todump = {}]

\* htmlwriter.py lines 188-227: an UnorderedListItem
EatUnorderedListItem(st, elem) ==
    LET depthli == elem.level * 2 - 1
        depthul == depthli - 1
        tagstack == st.tagstack
        li == Tag("li")
        ul == Tag("ul")
    IN IF Len(tagstack) > depthul /\ tagstack[depthul + 1].tag = "ul"
       THEN [st EXCEPT !.tagstack = SubSeq(tagstack, 1, depthli) \o << li >>]
       ELSE IF depthul - 2 >= 0 /\ Len(tagstack) > depthul - 1
               /\ tagstack[depthul - 1].tag = "ul"
               /\ tagstack[depthul].tag = "li"
       THEN [st EXCEPT !.tagstack = SubSeq(tagstack, 1, depthul)
                                        \o << ul, li >>]
       ELSE IF depthul = 0
       THEN [st EXCEPT !.tagstack = << ul, li >>, !.root = Append(@, "ul")]
       \* the diagnostic reads root.contents[-1] before raising RuntimeError
       ELSE [st EXCEPT !.err = IF st.root = << >> THEN "IndexError"
                                ELSE "RuntimeError"]

\* the OrderedListItem branch without the check of consecutive numbers
EatOrderedListItem_unchecked(st, elem) ==
    LET tagstack == st.tagstack
        li == [tag |-> "li", number |-> elem.number]
    IN IF Len(tagstack) >= 2 /\ tagstack[1].tag = "ol"
       THEN [st EXCEPT !.tagstack = << tagstack[1], li >>]
       ELSE IF elem.number # 1
       THEN [st EXCEPT !.err = "RuntimeError"]
       ELSE [st EXCEPT !.tagstack = << Tag("ol"), [li EXCEPT !.number = 1] >>,
                       !.root = Append(@, "ol")]

\* htmlwriter.py lines 228-254: an OrderedListItem
EatOrderedListItem(st, elem) ==
    LET tagstack == st.tagstack
        li == [tag |-> "li", number |-> elem.number]
    IN IF Len(tagstack) >= 2 /\ tagstack[1].tag = "ol"
       THEN IF tagstack[2].number + 1 # elem.number
            THEN [st EXCEPT !.err = "RuntimeError"]
            ELSE [st EXCEPT !.tagstack = << tagstack[1], li >>]
       ELSE IF elem.number # 1
       THEN [st EXCEPT !.err = "RuntimeError"]
       ELSE [st EXCEPT !.tagstack = << Tag("ol"), [li EXCEPT !.number = 1] >>,
                       !.root = Append(@, "ol")]

\* htmlwriter.py lines 156-178: a Paragraph; i is the 0-based index of elem
EatParagraph(st, page, i) ==
    LET tagstack == st.tagstack
        n == Len(page.elements)
        sandwiched ==
            /\ Len(tagstack) > 0
            /\ i < n - 1
            /\ tagstack[Len(tagstack)].tag = "li"
            /\ PyGet(page.elements, i - 1).type = "UnorderedListItem"
            /\ page.elements[i + 2].type = "UnorderedListItem"
            /\ PyGet(page.elements, i - 1).level > page.elements[i + 2].level
    IN IF sandwiched
       THEN IF Len(tagstack) < 3 THEN [st EXCEPT !.err = "IndexError"]
            ELSE [st EXCEPT !.tagstack =
                     SubSeq(tagstack, 1, Len(tagstack) - 2) \o << Tag("p") >>]
       ELSE [st EXCEPT !.tagstack = << Tag("p") >>, !.root = Append(@, "p")]

\* htmlwriter.py lines 153-315: one turn of the loop over page.elements;
\* i is the 0-based index of the element
EatElement(st0, page, i) ==
    LET elem == page.elements[i + 1]
        st == IF isText(elem)
              THEN [st0 EXCEPT !.todump = @ \cup elem.footnotes] ELSE st0
        dumped == dumpfootnotes(st, page)
        heading(tag, key) ==
            IF dumped.err # "" THEN dumped
            ELSE [dumped EXCEPT !.key = key, !.root = Append(@, tag)]
    IN CASE elem.type = "Paragraph" -> EatParagraph(st, page, i)
         [] elem.type = "NumberedParagraph" ->
                [st EXCEPT !.tagstack = << Tag("p") >>, !.root = Append(@, "p")]
         [] elem.type = "UnorderedListItem" -> EatUnorderedListItem(st, elem)
         [] elem.type = "OrderedListItem" -> EatOrderedListItem(st, elem)
         [] elem.type = "TitleHeading" ->
                heading("h1", IF Slice(elem.content, 0, 6) = "Annex "
                              THEN From(elem.content, 6) ELSE elem.content)
         [] elem.type = "NumberedHeading" ->
                heading("h" \o ToString(count(elem.key, ".") + 1), elem.key)
         [] elem.type = "NumberedTitleHeading" ->
                LET key == IF TakeLast(elem.key, 1) = "."
                           THEN DropLast(elem.key, 1) ELSE elem.key
                IN heading("h" \o ToString(count(key, ".") + 1), key)
         [] elem.type = "Code" ->
                IF Len(st.tagstack) > 0
                   /\ st.tagstack[Len(st.tagstack)].tag = "li"
                THEN st
                ELSE [st EXCEPT !.tagstack = << >>, !.root = Append(@, "pre")]
         [] elem.type = "NumberedCode" ->
                [st EXCEPT !.tagstack = << >>, !.root = Append(@, "div")]
         [] elem.type = "ValueDefinition" ->
                IF Len(st.tagstack) > 0 /\ st.tagstack[1].tag = "dl"
                THEN st
                ELSE [st EXCEPT !.tagstack = << Tag("dl") >>,
                                !.root = Append(@, "dl")]
         [] OTHER -> [st EXCEPT !.err = "ValueError"]

\* the loop over page.elements from index i on, until an element raises;
\* at holds the index of the element that raised
RECURSIVE EatElements(_, _, _)
EatElements(st, page, i) ==
    LET eaten(r) ==
            IF r.err # "" THEN [st |-> r, at |-> i]
            ELSE EatElements(r, page, i + 1)
    IN IF i >= Len(page.elements) THEN [st |-> st, at |-> -1]
       ELSE eaten(EatElement(st, page, i))

\* eatStructuredPage: the state it ends in and where it raised (-1: nowhere)
eatStructuredPage(page) ==
    LET eaten(r) ==
            IF r.st.err # "" THEN r
            ELSE [st |-> dumpfootnotes(r.st, page), at |-> -1]
    IN eaten(EatElements(EatStart, page, 0))

(***************************************************************************)
(* State                                                                   *)
(***************************************************************************)
VARIABLES
    toc,      \* TOC.titles: the (title, key) entries the matcher is built from
    tm,       \* the TOCMatcher: _titlestack and _headingstack
    lp,       \* the LineParser
    call,     \* the last call made: its name, its line and what it returned
    text,     \* a Text element: its content, and the exception of addcontent
    upage,    \* Page construction: the page text and the Page built from it
    spage,    \* StructuredPage construction: the Page and the page built
    merged,   \* mergepages: the pages given and what it returned
    html      \* eatStructuredPage: the page eaten and the state it ended in

vars == << toc, tm, lp, call, text, upage, spage, merged, html >>

\* the values of the parts of the state a specification does not use
NoCall ==
    [op |-> "", line |-> "", ret |-> FALSE, hits |-> 0, n |-> 0, blanks |-> 0]
NoText == [content |-> "", err |-> ""]
NoUPage == [text |-> "", page |-> NoPage(""), built |-> FALSE]
NoSPage ==
    [content |-> << >>, indent |-> 0, elements |-> << >>, footnotes |-> << >>,
     err |-> "", built |-> FALSE, placed |-> FALSE, reworked |-> FALSE,
     rerr |-> ""]
NoMerged ==
    [pages |-> << >>, merge |-> [elements |-> << >>, footnotes |-> << >>],
     after |-> << >>, err |-> "", done |-> FALSE]
NoHtml ==
    [content |-> << >>, elements |-> << >>, st |-> EatStart, at |-> -1,
     done |-> FALSE]

Entry(title, key) == [title |-> title, key |-> key]

(***************************************************************************)
(* The TOC matcher called directly                                         *)
(***************************************************************************)
\* tables of contents: keyed and unkeyed titles, a repeated title, an annex
MatcherTOCs ==
    { << Entry("Scope", "1"), Entry("Types", "6.2"), Entry("Index", NoKey) >>,
      << Entry("Foreword", NoKey), Entry("Scope", "1"), Entry("Scope", "1") >>,
      << Entry("Annex A", NoKey), Entry("Restrict", "6.7.3") >> }

MatcherLines ==
    { "1. Scope", "1 Scope", "Scope", "6.2 Types", "6x2  Types", "Index",
      "Foreword", " Annex A", "6.7.3 Restrict", "1.1", "1.2 Rules", "6.2.1",
      "6.2.10.3", "6.2.1x", "6.7.3.2", "6.7.3.2 through 6.7.3.6 apply" }

InitMatcher ==
    /\ toc \in MatcherTOCs
    /\ tm = TOCMatcher(toc)
    /\ lp = LineParser(0)
    /\ call = NoCall
    /\ text = NoText /\ upage = NoUPage /\ spage = NoSPage
    /\ merged = NoMerged /\ html = NoHtml

\* a call of TOCMatcher.matchtitle; hits counts the calls that returned True
MatchTitle(line) ==
    LET r == matchtitle(tm, line) IN
    /\ tm' = r.tm
    /\ call' = [call EXCEPT !.op = "matchtitle", !.line = line, !.ret = r.ret,
                            !.hits = IF r.ret THEN @ + 1 ELSE @]
    /\ UNCHANGED << toc, lp, text, upage, spage, merged, html >>

\* a call of TOCMatcher.matchheading
MatchHeading(line) ==
    /\ call' = [call EXCEPT !.op = "matchheading", !.line = line,
                            !.ret = matchheading(tm, line)]
    /\ UNCHANGED << toc, tm, lp, text, upage, spage, merged, html >>

NextMatcher ==
    \/ \E line \in MatcherLines : MatchTitle(line)
    \/ \E line \in MatcherLines : MatchHeading(line)

SpecMatcher == InitMatcher /\ [][NextMatcher]_vars

(***************************************************************************)
(* The text accumulator                                                    *)
(***************************************************************************)
\* the number of addcontent calls made on one Text
MaxAdds == 2

OpenTexts ==
    { "floating-", "imple-", "a Non-", "see http:", "at https://", "plain",
      "well-non-", "x -", "pre-\nimple-" }

NextLines ==
    { "point format", "mentation", "  word", "www.a.org/b for more", "b-c d",
      "std imple-" }

InitText ==
    /\ text \in { [content |-> strip(c), err |-> ""] : c \in OpenTexts }
    /\ call = NoCall
    /\ toc = << >> /\ tm = TOCMatcher(<< >>) /\ lp = LineParser(0)
    /\ upage = NoUPage /\ spage = NoSPage /\ merged = NoMerged /\ html = NoHtml

\* a call of Text.addcontent
AddContent(line) ==
    /\ call.n < MaxAdds
    /\ text.err = ""
    /\ text' = addcontent(text.content, line)
    /\ call' = [call EXCEPT !.op = "addcontent", !.line = line, !.n = @ + 1]
    /\ UNCHANGED << toc, tm, lp, upage, spage, merged, html >>

NextText == \E line \in NextLines : AddContent(line)

SpecText == InitText /\ [][NextText]_vars

(***************************************************************************)
(* The line parser fed line by line                                        *)
(***************************************************************************)
\* the number of parseline calls made on one LineParser
MaxLines == 3

ParserTOCs == { << Entry("Scope", "1") >> }

InitParser ==
    /\ toc \in ParserTOCs \cup { << Entry("Index", NoKey) >> }
    /\ tm = TOCMatcher(toc)
    /\ lp \in { LineParser(indent) : indent \in { 0, 2 } }
    /\ call = NoCall
    /\ text = NoText /\ upage = NoUPage /\ spage = NoSPage
    /\ merged = NoMerged /\ html = NoHtml

\* a call of LineParser.parseline; a call that raised ends the run.  blanks
\* counts the blank lines given since the last line that was not blank
ParseLine(line) ==
    LET parsed(r) ==
            /\ lp' = r.lp
            /\ tm' = r.tm
    IN /\ call.n < MaxLines
       /\ lp.err = ""
       /\ parsed(parseline(lp, line, tm, -1))
       /\ call' = [call EXCEPT !.op = "parseline", !.line = line, !.n = @ + 1,
                                !.blanks = IF line = "" THEN @ + 1 ELSE 0]
       /\ UNCHANGED << toc, text, upage, spage, merged, html >>

\* blank and text lines, the Syntax section, code, lists, a title with a key
\* and one without, lines with a paragraph number in a margin of two columns:
\* code, a paragraph, notes and examples
NextParser ==
    \E line \in
          { "", "para", "Syntax", "Semantics", "       code", "x /* Yields a",
            "@ item", "@", "2. two", "a b", "1. Scope", "  text", "1 NOTE n",
            "1        num", "         deep", "  Syntax", "1 para",
            "1 NOTE 2 n", "1 Note 1 to entry: x", "1 Note 2", "1 EXAMPLE e",
            "1 EXAMPLE 2 e", "Index" } :
        ParseLine(line)

SpecParser == InitParser /\ [][NextParser]_vars

(***************************************************************************)
(* The line parser of a page with a margin: its modes                      *)
(***************************************************************************)
\* the number of parseline calls made on one LineParser
MaxModeLines == 4

InitModes ==
    /\ toc \in ParserTOCs
    /\ tm = TOCMatcher(toc)
    /\ lp = LineParser(2)
    /\ call = NoCall
    /\ text = NoText /\ upage = NoUPage /\ spage = NoSPage
    /\ merged = NoMerged /\ html = NoHtml

\* a call of LineParser.parseline; a call that raised ends the run
ParseModeLine(line) ==
    LET parsed(r) ==
            /\ lp' = r.lp
            /\ tm' = r.tm
    IN /\ call.n < MaxModeLines
       /\ lp.err = ""
       /\ parsed(parseline(lp, line, tm, -1))
       /\ call' = [call EXCEPT !.op = "parseline", !.line = line, !.n = @ + 1,
                                !.blanks = IF line = "" THEN @ + 1 ELSE 0]
       /\ UNCHANGED << toc, text, upage, spage, merged, html >>

\* lines of a page with a margin of two columns: a blank line, the Syntax
\* section and its end, text, a numbered paragraph, the first line of the
\* long table, code, numbered code, a title of the TOC and a heading under
\* it, a list item indented as code is
NextModes ==
    \E line \in
          { "", "  Syntax", "  Semantics", "  text", "1 para",
            "  setPayload x", "         code", "1        num", "  1. Scope",
            "  1.1", "         2. two" } :
        ParseModeLine(line)

SpecModes == InitModes /\ [][NextModes]_vars

(***************************************************************************)
(* Page construction                                                       *)
(***************************************************************************)
\* the number of lines of a page text
MaxPageLines == 6

\* an empty line, a line at the margin, a number in the margin, an indented
\* line, a number in the margin written with an underscore
PageLines == { "", "H", "12", "  3", "1_2 x" }

\* the texts of n lines, joined as str.split('\n') parts them
RECURSIVE PageTextsOf(_)
PageTextsOf(n) ==
    IF n = 1 THEN PageLines
    ELSE { t \o "\n" \o l : t \in PageTextsOf(n - 1), l \in PageLines }

InitPage ==
    /\ upage \in { [NoUPage EXCEPT !.text = t] :
                     t \in UNION { PageTextsOf(n) : n \in 1..MaxPageLines } }
    /\ toc = << >> /\ tm = TOCMatcher(<< >>) /\ lp = LineParser(0)
    /\ call = NoCall /\ text = NoText /\ spage = NoSPage
    /\ merged = NoMerged /\ html = NoHtml

\* Page(text): the constructor returns a Page, raises or does not return
BuildPage ==
    /\ ~upage.built
    /\ upage' = [upage EXCEPT !.page = Page(upage.text), !.built = TRUE]
    /\ UNCHANGED << toc, tm, lp, call, text, spage, merged, html >>

\* StructuredPage(page, tocmatcher) for the Page built, with an empty TOC
StructurePage ==
    LET structured(r) ==
            /\ spage' = [spage EXCEPT !.content = upage.page.content,
                                      !.indent = upage.page.indent,
                                      !.elements = r.elements,
                                      !.footnotes = r.footnotes,
                                      !.err = r.err, !.built = TRUE]
            /\ tm' = r.tm
    IN /\ upage.built
       /\ upage.page.err = ""
       /\ ~spage.built
       /\ structured(StructuredPage(upage.page, tm, 0))
       /\ UNCHANGED << toc, lp, call, text, upage, merged, html >>

NextPage == BuildPage \/ StructurePage

SpecPage == InitPage /\ [][NextPage]_vars

(***************************************************************************)
(* StructuredPage construction                                             *)
(***************************************************************************)
\* the number of content lines of a page with footnotes
MaxFootLines == 3

\* tables of contents: keyed titles, the same titles without keys, none.
\* The pages are those of two titled sections and one footnote, each line
\* written in the ways a title, a body line and a footnote are found
\* written, and, with a table without keys or none, the pages with a margin
\* of two columns made of: a blank line, a title, the first lines of
\* footnotes 1 and 11, text, forward references and code with references,
\* the first line of footnote 3 with two words, and a list item
InitStruct ==
    /\ \/ /\ toc \in { << Entry("Scope", "1"),
                          Entry("Normative references", "2") >>,
                       << Entry("Scope", NoKey),
                          Entry("Normative references", NoKey) >>,
                       << >> }
          /\ spage \in
                { [NoSPage EXCEPT !.content = << t1, "", b, "", t2, "", f >>] :
                    t1 \in { "1 Scope", "1. Scope", "Scope" },
                    b \in { "This applies to widgets.",
                            "This applies to widgets.1)" },
                    t2 \in { "2 Normative references",
                             "2. Normative references",
                             "Normative references" },
                    f \in { "1) a cited standard", "  1) a cited standard" } }
       \/ /\ toc \in { << Entry("Scope", NoKey),
                          Entry("Normative references", NoKey) >>,
                       << >> }
          /\ spage \in { [NoSPage EXCEPT !.content = c, !.indent = 2] :
                            c \in UNION {
                                [1..n ->
                                    { "", "  Scope", "  1) one", "  11) x",
                                      "  text1)", "  text11)",
                                      "  Forward references: a1)",
                                      "         code1)", "  3) a  b",
                                      "  " \o EMDASH \o " item" }] :
                                n \in 1..MaxFootLines } }
    /\ tm = TOCMatcher(toc)
    /\ lp = LineParser(0) /\ call = NoCall /\ text = NoText
    /\ upage = NoUPage /\ merged = NoMerged /\ html = NoHtml

\* StructuredPage(page, tocmatcher) for the page of spage.content
Structure ==
    LET structured(r) ==
            /\ spage' = [spage EXCEPT !.elements = r.elements,
                                      !.footnotes = r.footnotes,
                                      !.err = r.err, !.built = TRUE]
            /\ tm' = r.tm
    IN /\ ~spage.built
       /\ structured(StructuredPage([content |-> spage.content,
                                     indent |-> spage.indent], tm, 0))
       /\ UNCHANGED << toc, lp, call, text, upage, merged, html >>

\* page.putfootnoteplaceholders() for the page built
PutPlaceholders ==
    /\ spage.built
    /\ spage.err = ""
    /\ spage.rerr = ""
    /\ ~spage.placed
    /\ spage' = [spage EXCEPT
                    !.elements = putfootnoteplaceholders(@, spage.footnotes, 1),
                    !.placed = TRUE]
    /\ UNCHANGED << toc, tm, lp, call, text, upage, merged, html >>

\* page.reworkfootnotes() for the page built
ReworkFootnotes ==
    LET reworked(r) ==
            spage' = [spage EXCEPT !.footnotes = r.footnotes,
                                   !.rerr = r.err, !.reworked = TRUE]
    IN /\ spage.built
       /\ spage.err = ""
       /\ ~spage.reworked
       /\ ~spage.placed
       /\ reworked(reworkfootnotes(spage.footnotes, 1))
       /\ UNCHANGED << toc, tm, lp, call, text, upage, merged, html >>

NextStruct == Structure \/ ReworkFootnotes \/ PutPlaceholders

SpecStruct == InitStruct /\ [][NextStruct]_vars

(***************************************************************************)
(* mergepages                                                              *)
(***************************************************************************)
\* the number of pages merged
MaxPages == 3

\* the StructuredPages of page contents: text alone, a footnote alone, text
\* with a footnote, text that goes on from the page before, code with and
\* without a footnote, a value definition, a list item, and one of a page
\* with a margin whose only element is a NumberedCode
MergePages ==
    { [elements |-> p.elements, footnotes |-> p.footnotes] :
        p \in { StructuredPage(page, TOCMatcher(<< >>), 0) :
                  page \in { [content |-> c, indent |-> 0] :
                               c \in { << "Some text." >>,
                                       << "  1) note" >>,
                                       << "First.", "", "  1) one" >>,
                                       << "lower case", "", "  2) two" >>,
                                       << "       code", "", "  3) three" >>,
                                       << "       more" >>,
                                       << "__X__ value" >>,
                                       << "@ item" >> } }
                           \cup { [content |-> << "1        num" >>,
                                   indent |-> 2] } } }

InitMerge ==
    /\ merged \in { [NoMerged EXCEPT !.pages = ps] :
                      ps \in UNION { [1..n -> MergePages] : n \in 1..MaxPages } }
    /\ toc = << >> /\ tm = TOCMatcher(<< >>) /\ lp = LineParser(0)
    /\ call = NoCall /\ text = NoText /\ upage = NoUPage /\ spage = NoSPage
    /\ html = NoHtml

\* mergepages(pages): the page returned, the pages afterwards, the exception
Merge ==
    LET returned(r) ==
            merged' = [merged EXCEPT !.merge = r.merge, !.after = r.pages,
                                     !.err = r.err, !.done = TRUE]
    IN /\ ~merged.done
       /\ returned(mergepages(merged.pages))
       /\ UNCHANGED << toc, tm, lp, call, text, upage, spage, html >>

NextMerge == Merge

SpecMerge == InitMerge /\ [][NextMerge]_vars

(***************************************************************************)
(* A page structured, then written as HTML                                 *)
(***************************************************************************)
\* the number of lines of the page
MaxItems == 3

\* the lines are items of an ordered list, a line of text, an empty line;
\* Page.content begins and ends with a line that is not empty
InitHtml ==
    /\ toc = << >>
    /\ tm = TOCMatcher(toc)
    /\ spage \in
          { [NoSPage EXCEPT !.content = c] :
              c \in { d \in UNION { [1..n -> { "1. one", "2. two", "3. three",
                                              "para", "" }] :
                                      n \in 1..MaxItems } :
                        d[1] # "" /\ d[Len(d)] # "" } }
    /\ html = NoHtml
    /\ lp = LineParser(0) /\ call = NoCall /\ text = NoText
    /\ upage = NoUPage /\ merged = NoMerged

\* eatStructuredPage(root, page) for the page structured
EatPage ==
    LET eaten(r) ==
            html' = [content |-> spage.content, elements |-> spage.elements,
                     st |-> r.st, at |-> r.at, done |-> TRUE]
    IN /\ spage.built
       /\ spage.err = ""
       /\ ~html.done
       /\ eaten(eatStructuredPage([elements |-> spage.elements,
                                   footnotes |-> spage.footnotes]))
       /\ UNCHANGED << toc, tm, lp, call, text, upage, spage, merged >>

NextHtml ==
    \/ Structure
    \/ EatPage

SpecHtml == InitHtml /\ [][NextHtml]_vars

(***************************************************************************)
(* Properties of the TOC matcher (SpecMatcher)                             *)
(***************************************************************************)
\* the line matches the title pattern of a TOC entry
TitleMatches(entry, line) ==
    Rx(maketitleregex(entry.title, entry.key), line, TRUE)

\* s is one or more groups of a '.' followed by digits
RECURSIVE IsSubKeys(_)
IsSubKeys(s) ==
    /\ Len(s) > 1
    /\ Ch(s, 1) = "."
    /\ LET d == LeadDigits(From(s, 1)) IN
       /\ d > 0
       /\ \/ Len(s) = d + 1
          \/ IsSubKeys(From(s, d + 1))

\* C2: a matchtitle call that returns false leaves both stacks as they were,
\* so that the same call made again returns false and changes nothing; a call
\* that returns true removes exactly the top entry of the title stack and the
\* top entry of the heading stack.
C2_MatchTitleConsumesOnSuccessOnly ==
    [][call'.op = "matchtitle" =>
         IF call'.ret
         THEN /\ tm'.titlestack
                   = SubSeq(tm.titlestack, 1, Len(tm.titlestack) - 1)
              /\ Len(tm'.titlestack) = Len(tm.titlestack) - 1
              /\ tm'.headingstack
                   = SubSeq(tm.headingstack, 1, Len(tm.headingstack) - 1)
              /\ Len(tm'.headingstack) = Len(tm.headingstack) - 1
         ELSE /\ tm' = tm
              /\ matchtitle(tm', call'.line) = [ret |-> FALSE, tm |-> tm']
    ]_vars

\* a title has been consumed and a later call has returned false
C2_Witness ==
    /\ call.op = "matchtitle"
    /\ ~call.ret
    /\ call.hits = 1
    /\ Len(tm.titlestack) = Len(toc) - 1

\* C3: the k-th matchtitle call that returns true matches the k-th TOC entry;
\* a call returns false when its line does not match the next entry to
\* expect, whatever other entries it matches, and when every entry has been
\* consumed; no more calls return true than the TOC has entries.
C3_TitlesInTOCOrder ==
    [][call'.op = "matchtitle" =>
         /\ call'.hits <= Len(toc)
         /\ call'.ret =>
                /\ call'.hits = call.hits + 1
                /\ TitleMatches(toc[call'.hits], call'.line)
         /\ ~call'.ret =>
                /\ call'.hits = call.hits
                /\ \/ call.hits = Len(toc)
                   \/ ~TitleMatches(toc[call.hits + 1], call'.line)
    ]_vars

\* every entry has been consumed and a line that matches a consumed entry has
\* then been refused
C3_Witness ==
    /\ call.op = "matchtitle"
    /\ ~call.ret
    /\ call.hits = Len(toc)
    /\ \E k \in 1..Len(toc) : TitleMatches(toc[k], call.line)

\* C4: matchheading changes neither stack; it returns false before any title
\* has been matched and when the title matched last has no key; when the
\* title matched last has key K it returns true for every line that is K
\* followed by one or more '.<digits>' groups, however many such calls came
\* before.
C4_MatchHeadingUnderLastTitle ==
    [][call'.op = "matchheading" =>
         /\ tm' = tm
         /\ call'.hits = call.hits
         /\ (call.hits = 0 \/ toc[call.hits].key = NoKey) => ~call'.ret
         /\ ( /\ call.hits > 0
              /\ toc[call.hits].key # NoKey
              /\ startswith(call'.line, toc[call.hits].key)
              /\ IsSubKeys(From(call'.line, Len(toc[call.hits].key))) )
            => call'.ret
    ]_vars

\* a sub-key of the title matched last has been recognised while entries of
\* the TOC are still to come
C4_Witness ==
    /\ call.op = "matchheading"
    /\ call.ret
    /\ call.hits > 0
    /\ call.hits < Len(toc)
    /\ IsSubKeys(From(call.line, Len(toc[call.hits].key)))

(***************************************************************************)
(* Properties of the text accumulator (SpecText)                           *)
(***************************************************************************)
\* C6: when the open text ends with a hyphen and addcontent is given a line
\* that has a word, then, if the last word of the text in lower case is in
\* NOSTITCHING, the hyphen stays and the first word of the line follows it
\* directly; otherwise exactly that hyphen is removed and the rest of the
\* last word and the first word of the line make one word.
C6_HyphenStitching ==
    [][( /\ call'.op = "addcontent"
         /\ Len(text.content) > 0
         /\ Ch(text.content, Len(text.content)) = "-"
         /\ Len(split(call'.line, -1)) > 0 ) =>
         LET cur == text.content
             words == split(cur, -1)
             last == words[Len(words)]
             first == split(call'.line, 1)[1]
             new == text'.content
             hyphens == count(cur, "-") + count(call'.line, "-")
         IN /\ text'.err = ""
            /\ Len(split(new, -1)) >= Len(words)
            /\ IF lower(last) \in NOSTITCHING
               THEN /\ split(new, -1)[Len(words)] = last \o first
                    /\ count(new, "-") = hyphens
               ELSE /\ split(new, -1)[Len(words)] = DropLast(last, 1) \o first
                    /\ count(new, "-") = hyphens - 1
    ]_vars

\* a hyphen kept after "Non-" and, one call later, a hyphen removed
C6_Witness ==
    /\ call.op = "addcontent"
    /\ call.line = "mentation"
    /\ text.content = "a Non-std\nimplementation"

\* C7 as the spec states it: 'floating-' continued by 'point format' gives
\* 'floating-point format', and 'imple-' continued by 'mentation' gives
\* 'implementation'.
C7_ScenarioAsStated ==
    [][call'.op = "addcontent" =>
         /\ (text.content = "floating-" /\ call'.line = "point format")
                => text'.content = "floating-point format"
         /\ (text.content = "imple-" /\ call'.line = "mentation")
                => text'.content = "implementation"
    ]_vars

\* C7 amended: 'floating-' continued by 'point format' gives
\* 'floating-point', a newline, 'format'; 'imple-' continued by 'mentation'
\* gives 'implementation'.
C7_Scenario ==
    [][call'.op = "addcontent" =>
         /\ (text.content = "floating-" /\ call'.line = "point format")
                => text' = [content |-> "floating-point\nformat", err |-> ""]
         /\ (text.content = "imple-" /\ call'.line = "mentation")
                => text' = [content |-> "implementation", err |-> ""]
    ]_vars

\* the first scenario has run
C7_Witness ==
    /\ call.op = "addcontent"
    /\ call.n = 1
    /\ call.line = "point format"
    /\ text.content = "floating-point\nformat"

(***************************************************************************)
(* C1: what one line adds while no element is open                         *)
(***************************************************************************)
\* the lines that switch the Syntax mode on and off
IsMarkerLine(line) == line = "Syntax" \/ line \in AFTERSYNTAX

\* the step is a parseline call on a non-blank line, made while no element
\* is open for continuation
C1_Case ==
    /\ call'.op = "parseline"
    /\ call'.n = call.n + 1
    /\ ~lp.inelement
    /\ strip(call'.line) # ""

\* the call appended exactly one element and did not raise
C1_OneNew ==
    /\ lp'.err = ""
    /\ Len(lp'.elements) = Len(lp.elements) + 1
    /\ SubSeq(lp'.elements, 1, Len(lp.elements)) = lp.elements

\* the call raised and left the elements as they were
C1_Raised == lp'.err # "" /\ lp'.elements = lp.elements

\* the call added the line to the Code that is the last element: the line,
\* without its margin, after an empty line or alone
C1_JoinedCode ==
    LET n == Len(lp.elements)
        l == From(call'.line, lp.indent)
    IN /\ lp'.err = ""
       /\ n > 0
       /\ isCode(lp.elements[n])
       /\ Len(lp'.elements) = n
       /\ SubSeq(lp'.elements, 1, n - 1) = SubSeq(lp.elements, 1, n - 1)
       /\ \/ /\ isspace(Slice(l, 0, 7))
             /\ lp'.elements[n] =
                    [lp.elements[n] EXCEPT !.lines = @ \o << "", l >>]
          \/ /\ contains(l, "/* Yields a") \/ lp'.inN3220_F3p1
             /\ lp'.elements[n] =
                    [lp.elements[n] EXCEPT !.lines = @ \o << l >>]

\* the marker lines may change the mode alone
C1_MarkerOnly ==
    /\ IsMarkerLine(From(call'.line, lp.indent))
    /\ lp'.err = ""
    /\ lp'.elements = lp.elements

C5_Collide ==
    \E i, j \in 1..Len(merged.pages) :
        /\ i < j
        /\ FootnoteIds(merged.pages[i]) \cap FootnoteIds(merged.pages[j]) # {}

\* C5: mergepages raises exactly when two of the pages share a footnote id:
\* it returns a merged page for pages of pairwise disjoint ids, and raises
\* otherwise
C5_RaisesIffCollision ==
    merged.done => (merged.err # "" <=> C5_Collide)

(***************************************************************************)
(* C8: a page of two titled sections and a footnote                        *)
(***************************************************************************)
C8_TOC == << Entry("Scope", "1"), Entry("Normative references", "2") >>

\* the page content of the scenario
C8_Content ==
    << "1 Scope", "", "This applies to widgets.", "",
       "2 Normative references", "", "1) a cited standard" >>

\* the same page with the titles and the footnote as the code reads them
C8_ContentDotted ==
    << "1. Scope", "", "This applies to widgets.", "",
       "2. Normative references", "", "  1) a cited standard" >>

C8_Built(content) ==
    /\ spage.built
    /\ toc = C8_TOC
    /\ spage.indent = 0
    /\ spage.content = content

\* C8 as stated: the scenario page yields TitleHeading('1 Scope'),
\* Paragraph('This applies to widgets.'),
\* TitleHeading('2 Normative references') and the footnote map
\* {1: [Paragraph('a cited standard')]}
C8_ScenarioAsStated ==
    C8_Built(C8_Content) =>
        /\ spage.err = ""
        /\ spage.elements =
               << TitleHeading("1 Scope"),
                  Paragraph("This applies to widgets."),
                  TitleHeading("2 Normative references") >>
        /\ spage.footnotes =
               << [id |-> 1,
                   elements |-> << Paragraph("a cited standard") >>] >>

\* C8 amended: the scenario page yields four Paragraphs ('1 Scope', 'This
\* applies to widgets.', '2 Normative references', '1) a cited standard'),
\* an empty footnote map and consumes no TOC entry; with the titles written
\* '1. Scope' and '2. Normative references' and the footnote line indented
\* it yields NumberedTitleHeading('1.', 'Scope'), the Paragraph,
\* NumberedTitleHeading('2.', 'Normative references') and the footnote map
\* {1: [Paragraph('a cited standard')]}
C8_Scenario ==
    /\ C8_Built(C8_Content) =>
        /\ spage.err = ""
        /\ spage.elements =
               << Paragraph("1 Scope"),
                  Paragraph("This applies to widgets."),
                  Paragraph("2 Normative references"),
                  Paragraph("1) a cited standard") >>
        /\ spage.footnotes = << >>
        /\ Len(tm.titlestack) = 2
    /\ C8_Built(C8_ContentDotted) =>
        /\ spage.err = ""
        /\ spage.elements =
               << [None EXCEPT !.type = "NumberedTitleHeading",
                               !.key = "1.", !.content = "Scope"],
                  Paragraph("This applies to widgets."),
                  [None EXCEPT !.type = "NumberedTitleHeading",
                               !.key = "2.",
                               !.content = "Normative references"] >>
        /\ spage.footnotes =
               << [id |-> 1,
                   elements |-> << Paragraph("a cited standard") >>] >>
        /\ Len(tm.titlestack) = 0

\* the scenario page has been structured
C8_Witness ==
    /\ C8_Built(C8_Content)
    /\ Len(spage.elements) = 4
    /\ spage.elements[1].type = "Paragraph"

(***************************************************************************)
(* C9: the numbers of an ordered list                                      *)
(***************************************************************************)
C9_AllItems ==
    \A k \in 1..Len(html.elements) : html.elements[k].type = "OrderedListItem"

\* the positions whose item does not carry the number of its position
C9_OutOfOrder ==
    { k \in 1..Len(html.elements) : html.elements[k].number # k }

\* the item at k begins a list: it is the first element, or follows a
\* Paragraph
C9_BeginsList(k) ==
    /\ html.elements[k].type = "OrderedListItem"
    /\ k = 1 \/ html.elements[k - 1].type = "Paragraph"

\* C9: a page of OrderedListItems numbered 1, 2, 3 in sequence is written
\* without raising; items whose numbers do not follow one another (1 then 3)
\* raise at the first item out of sequence; an item that begins a list and
\* is not numbered 1 raises
C9_OrderedListNumbering ==
    html.done =>
        /\ (C9_AllItems /\ C9_OutOfOrder = {}) => html.st.err = ""
        /\ (C9_AllItems /\ C9_OutOfOrder # {}) =>
               /\ html.st.err = "RuntimeError"
               /\ \A k \in C9_OutOfOrder : html.at + 1 <= k
               /\ html.at + 1 \in C9_OutOfOrder
        /\ \A k \in 1..Len(html.elements) :
               (C9_BeginsList(k) /\ html.elements[k].number # 1) =>
                   /\ html.st.err = "RuntimeError"
                   /\ html.at + 1 <= k

\* the items 1, 2, 3 have been written
C9_Witness ==
    /\ html.done
    /\ html.content = << "1. one", "2. two", "3. three" >>
    /\ Len(html.elements) = 3
    /\ C9_AllItems
    /\ html.st.err = ""
    /\ html.st.root = << "ol" >>

(***************************************************************************)
(* C10: the content of a Page                                              *)
(***************************************************************************)
\* C10: every Page that construction returns has a content of at least one
\* line, whose first and last lines are not blank
C10_ContentNonEmpty ==
    (upage.built /\ upage.page.err = "") =>
        LET content == upage.page.content IN
        /\ Len(content) >= 1
        /\ strip(content[1]) # ""
        /\ strip(content[Len(content)]) # ""

(***************************************************************************)
(* C11: a page text without the three blocks                               *)
(***************************************************************************)
\* the lines of a page text as Page.__init__ reads them
C11_Lines(page) ==
    LET stripped(raw) == [k \in 1..Len(raw) |-> rstrip(raw[k])]
    IN stripped(splitsep(page, "\n", -1))

\* the number of blocks of non-blank lines that blank lines separate
C11_Blocks(page) ==
    LET counted(lines) ==
            Cardinality({ k \in 1..Len(lines) :
                            /\ lines[k] # ""
                            /\ (k = 1 \/ lines[k - 1] = "") })
    IN counted(C11_Lines(page))

\* C11: constructing a Page from a text of fewer than three blocks of
\* non-blank lines (header, content, footer) raises an error and returns no
\* Page
C11_FewBlocksFail ==
    (upage.built /\ C11_Blocks(upage.text) < 3) =>
        upage.page.err \notin { "", "hang" }

(***************************************************************************)
(* C12: the three repairs of mergepages                                    *)
(***************************************************************************)
\* first, the first element of a page, is folded into last, the last element
\* of the pages before it
C12_Folds(last, first) ==
    \/ last.type \in CodeTypes /\ first.type = "Code"
    \/ /\ last.type \in TextTypes
       /\ first.type = "Paragraph"
       /\ Len(first.content) > 0
       /\ islowerch(Ch(first.content, 1))
    \/ last.type \in ValueDefinitionTypes /\ first.type = "Code"

\* the elements of pages[k] as places: page, position, and whether a later
\* first element was folded into it
C12_Places(pages, k, from) ==
    [e \in 1..(Len(pages[k].elements) - from + 1) |->
        [p |-> k, e |-> e + from - 1, target |-> FALSE]]

\* the places of the elements the merge keeps, for pages k.. after acc
RECURSIVE C12_Kept(_, _, _)
C12_Kept(pages, k, acc) ==
    LET last == pages[acc[Len(acc)].p].elements[acc[Len(acc)].e]
        fold == /\ Len(acc) > 0
                /\ Len(pages[k].elements) > 0
                /\ C12_Folds(last, pages[k].elements[1])
    IN IF k > Len(pages) THEN acc
       ELSE IF fold
       THEN C12_Kept(pages, k + 1,
                     SubSeq(acc, 1, Len(acc) - 1)
                         \o << [p |-> acc[Len(acc)].p, e |-> acc[Len(acc)].e,
                                target |-> TRUE] >>
                         \o C12_Places(pages, k, 2))
       ELSE C12_Kept(pages, k + 1, acc \o C12_Places(pages, k, 1))

\* the places kept of the pages given to mergepages
C12_Merged == C12_Kept(merged.pages, 2, C12_Places(merged.pages, 1, 1))

\* C12: when mergepages returns, the first element of each page after the
\* first was folded into the last element before it exactly in the three
\* cases (Code of any subclass + Code, text element + Paragraph beginning in
\* lower case, ValueDefinition + Code); the merged sequence holds every other
\* element of the pages once, in page order and in its order in the page,
\* unchanged unless a first element was folded into it
C12_ThreeRepairs ==
    (merged.done /\ merged.err = "") =>
        /\ Len(merged.merge.elements) = Len(C12_Merged)
        /\ \A j \in 1..Len(C12_Merged) :
              LET place == C12_Merged[j]
                  given == merged.pages[place.p].elements[place.e]
                  got == merged.merge.elements[j]
              IN IF place.target
                 THEN /\ got.type = given.type
                      /\ got # given
                 ELSE got = given

\* three pages merged, a repair made and a page appended whole
C12_Witness ==
    /\ merged.done
    /\ merged.err = ""
    /\ Len(merged.pages) = 3
    /\ \E j \in 1..Len(C12_Merged) : C12_Merged[j].target
    /\ \E j \in 1..Len(C12_Merged) :
          C12_Merged[j].p > 1 /\ C12_Merged[j].e = 1

(***************************************************************************)
(* C13: the margin of a page                                               *)
(***************************************************************************)
\* the first m columns of every line are all whitespace or read as an integer
C13_OnlyNumbers(lines, m) ==
    \A k \in 1..Len(lines) :
        \/ strip(Slice(lines[k], 0, m)) = ""
        \/ isint(Slice(lines[k], 0, m))

\* the widths of the leading whitespace of the lines that are not empty
C13_Widths(lines) ==
    { Len(lines[k]) - Len(lstrip(lines[k])) :
        k \in { j \in 1..Len(lines) : lines[j] # "" } }

\* a Page was returned whose content has two widths or more, 0 among them
C13_Case ==
    /\ upage.built
    /\ upage.page.err = ""
    /\ Cardinality(C13_Widths(upage.page.content)) >= 2
    /\ 0 \in C13_Widths(upage.page.content)

\* C13: for content lines of two or more leading whitespace widths, zero
\* one of them, Page.indent is the largest m such that the first m columns of
\* every content line are all whitespace or read as an integer: indent is
\* such an m and no larger m is.  Beyond the longest line the first m columns
\* are the whole line, so the m up to one past it stand for all.
C13_IndentIsLargest ==
    C13_Case =>
        /\ C13_OnlyNumbers(upage.page.content, upage.page.indent)
        /\ \A m \in (upage.page.indent + 1)
                      ..(MaxLineLen(upage.page.content) + 1) :
              ~C13_OnlyNumbers(upage.page.content, m)

(***************************************************************************)
(* Steps of the line parser (SpecParser, SpecModes)                        *)
(***************************************************************************)
\* a parseline call was made and returned
Parsed == call'.op = "parseline" /\ call'.n = call.n + 1 /\ lp'.err = ""

\* the margin of the line is blank: the line goes to _parselinewithoutindent
BlankMargin ==
    call'.line # "" /\ (lp.indent = 0 \/ isspace(Slice(call'.line, 0, lp.indent)))

\* the line without its margin
Unindented == From(call'.line, lp.indent)

\* the call appended one element, of one of the types
Appended(types) ==
    /\ Len(lp'.elements) = Len(lp.elements) + 1
    /\ SubSeq(lp'.elements, 1, Len(lp.elements)) = lp.elements
    /\ lp'.elements[Len(lp'.elements)].type \in types

\* the call appended a numbered paragraph: NumberedParagraph or a NOTE, Note
\* to entry or EXAMPLE variant
AppendedNumbered == Appended(ParagraphTypes \ { "Paragraph" })

(***************************************************************************)
(* C14: the Syntax section                                                 *)
(***************************************************************************)
\* the line is one of the three tokens that end a Syntax section
C14_Terminator == BlankMargin /\ Unindented \in AFTERSYNTAX

\* a new Paragraph made of the line 'Syntax' starts the mode
C14_Starts ==
    (Parsed /\ lp.insyntax = NOTINSYNTAX /\ BlankMargin
        /\ Unindented = "Syntax" /\ Appended({ "Paragraph" }))
    => lp'.insyntax = STARTSYNTAX

\* in the mode no line but a terminator starts a Paragraph: a line that is
\* not classified otherwise (a 'Forward references: ' line and a paragraph
\* indented inside a list are classified before) starts a Code
C14_CodeInMode ==
    (Parsed /\ lp.insyntax # NOTINSYNTAX /\ Appended({ "Paragraph" })
        /\ ~startswith(lstrip(Unindented), "Forward references: ")
        /\ ~isspace(Slice(Unindented, 0, 4)))
    => C14_Terminator

\* in the mode a terminator that starts a paragraph-level element starts a
\* Paragraph and ends the mode (the long table forces Code before)
C14_TerminatorEnds ==
    (Parsed /\ lp.insyntax # NOTINSYNTAX /\ C14_Terminator
        /\ ~lp.inN3220_F3p1 /\ Appended({ "Paragraph", "Code" }))
    => /\ Appended({ "Paragraph" })
       /\ lp'.insyntax = NOTINSYNTAX

\* the mode was on before the call and is off after it
C14_Ended == Parsed /\ lp.insyntax # NOTINSYNTAX /\ lp'.insyntax = NOTINSYNTAX

C15_Marker ==
    /\ BlankMargin
    /\ \/ contains(Unindented, "Table F.2: Operation binding")
       \/ /\ split(Unindented, 1) # << >>
          /\ split(Unindented, 1)[1] \in N3220_F3P1STARTS

\* the line is one of the section-name tokens
C15_SectionName == BlankMargin /\ Unindented \in AFTERSYNTAX

\* the call added the line to the last Code, or appended a Code made of it
C15_MadeCode ==
    \/ Appended({ "Code" })
    \/ /\ Len(lp'.elements) = Len(lp.elements)
       /\ Len(lp.elements) > 0
       /\ lp'.elements[Len(lp.elements)].type \in CodeTypes
       /\ lp'.elements[Len(lp.elements)].lines
              = Append(lp.elements[Len(lp.elements)].lines, Unindented)

\* a marker line latches the mode
C15_Latches == (Parsed /\ C15_Marker) => lp'.inN3220_F3p1

\* while the mode is off and the line is no marker, a line that the heading
\* oracle matches, and that is not the next title, starts a heading
C15_HeadingsWhenOff ==
    (Parsed /\ ~lp.inN3220_F3p1 /\ ~C15_Marker /\ BlankMargin
        /\ ~startswith(lstrip(Unindented), "Forward references: ")
        /\ Slice(Unindented, 0, 8) # "o,u,x,X "
        /\ ~matchtitle(tm, Unindented).ret
        /\ matchheading(tm, Unindented))
    => Appended({ "NumberedHeading", "NumberedTitleHeading" })

\* while the mode is on, no line starts a heading but the next title
C15_NoHeadingsWhenOn ==
    (Parsed /\ lp.inN3220_F3p1 /\ BlankMargin
        /\ ~matchtitle(tm, Unindented).ret)
    => ~Appended(HeadingTypes)

\* while the mode is off, a line at the margin that is no marker is not
\* made Code outside a Syntax section
C15_NotForcedWhenOff ==
    (Parsed /\ ~lp.inN3220_F3p1 /\ ~C15_Marker /\ BlankMargin
        /\ lp.insyntax = NOTINSYNTAX
        /\ ~contains(Unindented, "/* Yields a")
        /\ ~isspace(Slice(Unindented, 0, 4)))
    => ~C15_MadeCode

\* C15 as stated: the long-table mode, latched by its marker text, is
\* cleared by a line equal to 'Constraints', 'Description' or 'Semantics'
C15_ClearedBySectionNameAsStated ==
    [][/\ C15_Latches
       /\ (Parsed /\ lp.inN3220_F3p1 /\ C15_SectionName)
              => ~lp'.inN3220_F3p1
    ]_vars

\* C15: the long-table mode, latched by its marker text, is cleared when a
\* line with a number in the margin starts a numbered paragraph, and by
\* nothing else: a line equal to 'Constraints', 'Description' or 'Semantics'
\* leaves it on and is made Code.  After the clearing line the parser no
\* longer forces lines to Code and recognises headings again.
C15_ClearedByNumberedParagraph ==
    [][/\ C15_Latches
       /\ (Parsed /\ lp.inN3220_F3p1) =>
              (~lp'.inN3220_F3p1 <=> (~BlankMargin /\ AppendedNumbered))
       /\ (Parsed /\ lp.inN3220_F3p1 /\ C15_SectionName)
              => (lp'.inN3220_F3p1 /\ C15_MadeCode)
       /\ C15_NoHeadingsWhenOn
       /\ C15_HeadingsWhenOff
       /\ C15_NotForcedWhenOff
    ]_vars

\* the mode latched, then cleared by a numbered paragraph, then a heading
\* recognised
C15_Witness ==
    /\ Len(lp.elements) = 4
    /\ lp.elements[1].type = "NumberedTitleHeading"
    /\ lp.elements[2].type = "Code"
    /\ lp.elements[2].lines = << "setPayload x" >>
    /\ lp.elements[3].type = "NumberedParagraph"
    /\ lp.elements[4].type = "NumberedHeading"
    /\ ~lp.inN3220_F3p1

(***************************************************************************)
(* C16: blank lines inside code                                            *)
(***************************************************************************)
\* n empty lines
C16_Empty(n) == [k \in 1..n |-> ""]

\* the last element is a Code, blank lines were given after it, and the line
\* is indented by 7 columns or more after the margin
C16_Case ==
    /\ Parsed
    /\ Len(lp.elements) > 0
    /\ lp.elements[Len(lp.elements)].type \in CodeTypes
    /\ call.blanks >= 1
    /\ BlankMargin
    /\ isspace(Slice(Unindented, 0, 7))

\* the line is classified before its indentation is looked at: the next
\* title, a heading, a list item, the value definition of a macro, a
\* 'Forward references: ' paragraph
C16_Classified ==
    \/ matchtitle(tm, Unindented).ret
    \/ matchheading(tm, Unindented) /\ ~lp'.inN3220_F3p1
    \/ startswith(lstrip(Unindented), "Forward references: ")
    \/ Ch(lstrip(Unindented), 1) \in { EMDASH, BULLET }
    \/ LET word == split(Unindented, 1)[1] IN
       \/ isdigit(DropLast(word, 1)) /\ TakeLast(word, 1) = "."
       \/ /\ Len(split(Unindented, 1)) = 2
          /\ Slice(word, 0, 2) = "__"
          /\ TakeLast(word, 2) = "__"

\* no element was started and the last Code got these lines more
C16_Added(lines) ==
    /\ Len(lp'.elements) = Len(lp.elements)
    /\ lp'.elements
          = [lp.elements EXCEPT ![Len(lp.elements)].lines = @ \o lines]

\* C16 as stated: when the last element is a Code followed by blank lines
\* and then a line indented by 7 columns or more, no element is started; the
\* line is added to the Code and each blank line in between is recorded in it
\* as one empty line
C16_BlankLinesKeptAsStated ==
    [][C16_Case =>
           C16_Added(C16_Empty(call.blanks) \o << Unindented >>)]_vars

\* C16: when the last element is a Code followed by blank lines and then a
\* line indented by 7 columns or more that is not a title, a heading, a list
\* item, the value definition of a macro or a 'Forward references: ' line,
\* no element is started; the line is
\* added to the Code and the blank lines in between, however many, are
\* recorded in it as one empty line
C16_BlankLinesKept ==
    [][(C16_Case /\ ~C16_Classified) =>
           C16_Added(<< "", Unindented >>)]_vars

\* a Code, two blank lines, and a line of code added to it
C16_Witness ==
    /\ call.n = 4
    /\ call.line = "         code"
    /\ Len(lp.elements) = 1
    /\ lp.elements[1].type = "Code"
    /\ lp.elements[1].lines = << "       code", "", "       code" >>

(***************************************************************************)
(* C17: a line with a number in the margin                                 *)
(***************************************************************************)
\* the parser has a margin and the margin of the line reads as an integer
C17_Case ==
    /\ call'.op = "parseline"
    /\ call'.n = call.n + 1
    /\ lp.indent # 0
    /\ call'.line # ""
    /\ ~isspace(Slice(call'.line, 0, lp.indent))
    /\ isint(Slice(call'.line, 0, lp.indent))

\* the numbered paragraph variant that the first words of the line name
C17_Variant ==
    LET words == split(Unindented, 2)
        first == IF Len(words) > 0 THEN words[1] ELSE ""
        sub == Len(words) >= 2 /\ isint(words[2])
    IN IF first = "NOTE"
       THEN IF sub THEN "NoteNumberParagraph" ELSE "NoteParagraph"
       ELSE IF first = "Note" /\ sub /\ Len(words) = 3
               /\ startswith(words[3], "to entry: ")
       THEN "NoteToEntryParagraph"
       ELSE IF first = "EXAMPLE"
       THEN IF sub THEN "ExampleNumberParagraph" ELSE "ExampleParagraph"
       ELSE "NumberedParagraph"

\* 'Note' and an integer with nothing after them
C17_NoteCutShort ==
    LET words == split(Unindented, 2)
    IN Len(words) = 2 /\ words[1] = "Note" /\ isint(words[2])

\* the call appended one element of the type, carrying the margin number
C17_Started(type) ==
    /\ lp'.err = ""
    /\ Appended({ type })
    /\ lp'.elements[Len(lp'.elements)].number
          = int(Slice(call'.line, 0, lp.indent))

C18_Case ==
    /\ call'.op = "parseline"
    /\ call'.n = call.n + 1
    /\ BlankMargin
    /\ Len(tm.titlestack) > 0
    /\ Rx(tm.titlestack[Len(tm.titlestack)], Unindented, TRUE)

\* the last element is a heading made of a title
C18_AfterTitle ==
    /\ Len(lp.elements) > 0
    /\ lp.elements[Len(lp.elements)].type
          \in { "TitleHeading", "NumberedTitleHeading" }

\* C18: a line that matches the next expected title of the TOC matcher is
\* emitted as a new TitleHeading or NumberedTitleHeading whatever element is
\* open, the entry is consumed and the continuation flag is cleared; and the
\* line that follows a title heading changes no element made before it
C18_TitleStartsHeading ==
    [][/\ C18_Case =>
            /\ lp'.err = ""
            /\ Appended({ "TitleHeading", "NumberedTitleHeading" })
            /\ ~lp'.inelement
            /\ Len(tm'.titlestack) = Len(tm.titlestack) - 1
       /\ (C18_AfterTitle /\ call'.n = call.n + 1) =>
            SubSeq(lp'.elements, 1, Len(lp.elements)) = lp.elements]_vars

\* a title came while a Code was open, and the code line after the title
\* started a Code of its own
C18_Witness ==
    /\ call.op = "parseline"
    /\ Len(lp.elements) = 3
    /\ lp.elements[1].type = "Code"
    /\ lp.elements[1].lines = << "       code" >>
    /\ lp.elements[2].type = "NumberedTitleHeading"
    /\ lp.elements[3].type = "Code"
    /\ lp.elements[3].lines = << "       code" >>

(***************************************************************************)
(* C19: footnote territory                                                 *)
(***************************************************************************)
\* the lines of content given one by one to the parsers the claim names,
\* from line j on: the body parser until the first line that matches the
\* footnote pattern; from then on a marker line starts a new parser for its
\* id and a line without a marker goes to the parser of the last marker.
\* feet maps the ids met so far to their parsers
RECURSIVE C19_Territory(_, _, _, _, _, _, _)
C19_Territory(content, indent, j, matcher, body, feet, last) ==
    LET marker == footnoteregex(content[j])
        id == IF marker THEN int(splitsep(content[j], ")", 1)[1]) ELSE last
        given(r) ==
            IF id = -1
            THEN C19_Territory(content, indent, j + 1, r.tm, r.lp, feet, -1)
            ELSE C19_Territory(content, indent, j + 1, r.tm, body,
                               [x \in DOMAIN feet \cup { id } |->
                                   IF x = id THEN r.lp ELSE feet[x]], id)
        give(use) == given(parseline(use.lp, use.text, matcher, use.force))
    IN IF j > Len(content) THEN [body |-> body, feet |-> feet]
       ELSE give(IF marker
                 THEN [lp |-> LineParser(indent),
                       text |-> splitsep(content[j], ")", 1)[2], force |-> 0]
                 ELSE IF id = -1
                 THEN [lp |-> body, text |-> content[j], force |-> -1]
                 ELSE [lp |-> feet[id], text |-> content[j], force |-> -1])

\* the page built is the page of the territories
C19_Same(page, territory) ==
    /\ page.elements = territory.body.elements
    /\ Len(page.footnotes) = Cardinality(DOMAIN territory.feet)
    /\ \A k \in 1..Len(page.footnotes) :
          /\ page.footnotes[k].id \in DOMAIN territory.feet
          /\ page.footnotes[k].elements
                = territory.feet[page.footnotes[k].id].elements

\* C19: once a content line matches the footnote pattern no line at or after
\* it adds to the body elements of the page: a marker line starts the
\* elements of its id and each line without a marker after it extends the
\* elements of the id of the last marker
C19_FootnoteTerritory ==
    (spage.built /\ spage.err = "" /\ ~spage.placed /\ ~spage.reworked) =>
        C19_Same(spage,
                 C19_Territory(spage.content, spage.indent, 1,
                               TOCMatcher(toc), LineParser(spage.indent),
                               << >>, -1))

\* a page of a body line and footnote 1 with a second line that reads as
\* the body line does
C19_Witness ==
    /\ spage.built /\ spage.err = "" /\ ~spage.placed /\ ~spage.reworked
    /\ spage.content = << "  text1)", "  1) one", "  text1)" >>
    /\ Len(spage.elements) = 1
    /\ spage.elements[1].content = "text1)"
    /\ Len(spage.footnotes) = 1
    /\ spage.footnotes[1].id = 1
    /\ Len(spage.footnotes[1].elements) = 1
    /\ spage.footnotes[1].elements[1].content = "one\ntext1)"

(***************************************************************************)
(* C20: footnote placeholders                                              *)
(***************************************************************************)
\* putfootnoteplaceholders was called on the page built
C20_Step == spage'.placed /\ ~spage.placed

\* the string with the placeholder of each id turned back into '<id>)',
\* the ids of the footnote mapping taken from the k-th on
RECURSIVE C20_Back(_, _)
C20_Back(s, k) ==
    LET back(id) ==
            C20_Back(subn(ESC \o "footnote" \o str(id) \o ESC,
                          str(id) \o ")", s).s, k + 1)
    IN IF k > Len(spage.footnotes) THEN s
       ELSE back(spage.footnotes[k].id)

\* no '<id>)' of an id of the mapping is left in the string after, and the
\* string after differs from the string before by placeholders put for them
C20_Replaced(before, after) ==
    /\ \A k \in 1..Len(spage.footnotes) :
          ~contains(after, str(spage.footnotes[k].id) \o ")")
    /\ C20_Back(after, 1) = before

\* the references of element e0 are replaced in e1, unless e0 is a text that
\* begins with 'Forward references: ', which is left as it is
C20_Put(e0, e1) ==
    IF isText(e0) /\ startswith(e0.content, "Forward references: ")
    THEN e1 = e0
    ELSE /\ [e1 EXCEPT !.content = e0.content, !.lines = e0.lines,
                       !.footnotes = e0.footnotes] = e0
         /\ C20_Replaced(e0.content, e1.content)
         /\ Len(e1.lines) = Len(e0.lines)
         /\ \A i \in 1..Len(e0.lines) : C20_Replaced(e0.lines[i], e1.lines[i])

\* C20_Put for each element of a sequence
C20_PutAll(before, after) ==
    /\ Len(after) = Len(before)
    /\ \A k \in 1..Len(before) : C20_Put(before[k], after[k])

C22_Matched == Len(toc) - Len(tm.titlestack)

\* C22: the heading stack always holds one entry more than the title stack,
\* and its top is the heading pattern of the TOC entry matched last: the
\* None sentinel before any match and when that entry has no key
C22_HeadingStackFollows ==
    /\ Len(tm.headingstack) = Len(tm.titlestack) + 1
    /\ C22_Matched \in 0..Len(toc)
    /\ tm.headingstack[Len(tm.headingstack)]
          = IF C22_Matched = 0 THEN NoRegex
            ELSE makeheadingregex(toc[C22_Matched].key)

\* two entries have been matched, the second has a key, and the top of the
\* heading stack is its pattern and not the sentinel
C22_Witness ==
    /\ call.op = "matchtitle"
    /\ call.hits = 2
    /\ C22_Matched = 2
    /\ toc[2].key # NoKey
    /\ tm.headingstack[Len(tm.headingstack)] # NoRegex
    /\ tm.headingstack[Len(tm.headingstack)] = makeheadingregex(toc[2].key)

(***************************************************************************)
(* C30: the element sequence of the classifier only grows                  *)
(***************************************************************************)
\* C30: a parseline call lengthens the element sequence by one element at
\* most, and leaves every element but the one that was last before the call
\* as it was and where it was, whether the call returns or raises
C30_AppendOnly ==
    [][call'.op = "parseline" =>
           /\ Len(lp'.elements) \in { Len(lp.elements), Len(lp.elements) + 1 }
           /\ \A k \in 1..(Len(lp.elements) - 1) :
                 lp'.elements[k] = lp.elements[k]]_vars

\* a Code after a Paragraph took a second line: the last element changed,
\* the Paragraph before it did not
C30_Witness ==
    /\ call.op = "parseline"
    /\ call.n = 3
    /\ Len(lp.elements) = 2
    /\ lp.elements[1].type = "Paragraph"
    /\ lp.elements[1].content = "para"
    /\ lp.elements[2].type = "Code"
    /\ Len(lp.elements[2].lines) = 2

(***************************************************************************)
(* C23: Page construction ends                                             *)
(***************************************************************************)
\* C23: constructing a Page returns a Page or raises for every page text;
\* the upward probe of the indent search always stops
C23_ConstructionTerminates ==
    upage.built => upage.page.err # "hang"

(***************************************************************************)
(* C24: the pages given to mergepages                                      *)
(***************************************************************************)
\* C24: mergepages leaves the pages it is given as they were, their
\* elements and their footnotes, when it returns and when it raises
C24_PagesUnchanged ==
    merged.done => merged.after = merged.pages

(***************************************************************************)
(* C21: the footnotes after reworkfootnotes                                *)
(***************************************************************************)
\* a paragraph of a footnote with a paragraph or a list item right after it
C21_Open(elems) ==
    \E i \in 1..(Len(elems) - 1) :
        /\ isParagraph(elems[i])
        /\ \/ isParagraph(elems[i + 1])
           \/ elems[i + 1].type = "UnorderedListItem"

\* C21: after reworkfootnotes returns, no footnote's element list has two
\* adjacent Paragraph elements and none has an UnorderedListItem right after
\* a Paragraph.
C21_ParagraphsMerged ==
    (spage.reworked /\ spage.rerr = "") =>
        \A k \in 1..Len(spage.footnotes) :
            ~C21_Open(spage.footnotes[k].elements)

\* footnote 3 of two paragraphs, made one by reworkfootnotes
C21_Witness ==
    /\ spage.reworked /\ spage.rerr = "" /\ ~spage.placed
    /\ spage.content = << "  3) a  b", "", "  text1)" >>
    /\ Len(spage.footnotes) = 1
    /\ spage.footnotes[1].id = 3
    /\ Len(spage.footnotes[1].elements) = 1
    /\ spage.footnotes[1].elements[1].type = "Paragraph"
    /\ spage.footnotes[1].elements[1].content = "a b\ntext1)"

(***************************************************************************)
(* C28: reworkfootnotes and the footnote of one word                       *)
(***************************************************************************)
\* C28: reworkfootnotes completes without raising for every footnote
\* mapping that StructuredPage construction can produce, a footnote whose
\* only element is a one-word paragraph included.
C28_ReworkReturns == spage.reworked => spage.rerr = ""

(***************************************************************************)
(* C27: a footnote id that marks two lines                                 *)
(***************************************************************************)
\* the id of a marker line, -1 for a line without a marker
C27_Id(line) ==
    IF footnoteregex(line) THEN int(splitsep(line, ")", 1)[1]) ELSE -1

\* the lines of the page that the id marks
C27_Markers(id) ==
    { j \in 1..Len(spage.content) : C27_Id(spage.content[j]) = id }

\* the elements parsed from the marker at line j up to the next marker, by
\* a page of those lines alone and the matcher as the lines before leave it
C27_From(j) ==
    LET next == { e \in (j + 1)..Len(spage.content) :
                    footnoteregex(spage.content[e]) }
        end == IF next = { } THEN Len(spage.content)
               ELSE (CHOOSE e \in next : \A f \in next : e <= f) - 1
        before ==
            StructuredPage([content |-> SubSeq(spage.content, 1, j - 1),
                            indent |-> spage.indent], TOCMatcher(toc), 0)
        alone ==
            StructuredPage([content |-> SubSeq(spage.content, j, end),
                            indent |-> spage.indent], before.tm, 0)
    IN alone.footnotes[1].elements

\* C27: when the same footnote id marks two lines of the footnote region of
\* a page, the construction of the StructuredPage does not raise, and the
\* footnote mapping keeps for that id only the elements parsed from the
\* later marker onward.
C27_LaterMarkerKept ==
    (spage.built /\ ~spage.reworked /\ ~spage.placed) =>
        \A id \in { C27_Id(spage.content[j]) : j \in 1..Len(spage.content) } :
            (id # -1 /\ Cardinality(C27_Markers(id)) >= 2) =>
                /\ spage.err = ""
                /\ \E k \in 1..Len(spage.footnotes) :
                      /\ spage.footnotes[k].id = id
                      /\ spage.footnotes[k].elements
                            = C27_From(CHOOSE j \in C27_Markers(id) :
                                          \A i \in C27_Markers(id) : i <= j)

\* footnote 1 marked twice: of the paragraph of two lines under the first
\* marker nothing is kept
C27_Witness ==
    /\ spage.built /\ spage.err = "" /\ ~spage.reworked /\ ~spage.placed
    /\ spage.content = << "  1) one", "  text1)", "  1) one" >>
    /\ Len(spage.footnotes) = 1
    /\ spage.footnotes[1].id = 1
    /\ Len(spage.footnotes[1].elements) = 1
    /\ spage.footnotes[1].elements[1].content = "one"

(***************************************************************************)
(* C25: the TOC matcher and the lines of the footnotes                     *)
(***************************************************************************)
\* the body of the page parsed, the matcher after it and the index of the
\* first footnote line
C25_Body ==
    BodyLines(LineParser(spage.indent), TOCMatcher(toc), spage.content, 0)

\* the footnote lines from the j-th on, given as the constructor gives them:
\* a call changes the matcher exactly when it appends a title heading, the
\* change is the entry on top of both stacks taken off, and the matcher
\* after the last line is the matcher of the state
RECURSIVE C25_Lines(_, _, _, _)
C25_Lines(j, matcher, feet, last) ==
    LET marker == footnoteregex(spage.content[j])
        id == IF marker THEN int(splitsep(spage.content[j], ")", 1)[1])
              ELSE last
        title(before, after) ==
            /\ Len(after) = Len(before) + 1
            /\ after[Len(after)].type \in { "TitleHeading",
                                            "NumberedTitleHeading" }
        given(use, r) ==
            /\ (r.tm # matcher) <=> title(use.lp.elements, r.lp.elements)
            /\ (r.tm # matcher) =>
                  /\ Len(matcher.titlestack) > 0
                  /\ r.tm.titlestack
                        = SubSeq(matcher.titlestack, 1,
                                 Len(matcher.titlestack) - 1)
                  /\ r.tm.headingstack
                        = SubSeq(matcher.headingstack, 1,
                                 Len(matcher.headingstack) - 1)
            /\ C25_Lines(j + 1, r.tm,
                         [x \in DOMAIN feet \cup { id } |->
                             IF x = id THEN r.lp ELSE feet[x]], id)
        give(use) ==
            given(use, parseline(use.lp, use.text, matcher, use.force))
    IN IF j > Len(spage.content) THEN matcher = tm
       ELSE give(IF marker
                 THEN [lp |-> LineParser(spage.indent),
                       text |-> splitsep(spage.content[j], ")", 1)[2],
                       force |-> 0]
                 ELSE [lp |-> feet[id], text |-> spage.content[j],
                       force |-> -1])

\* C25 as stated: classifying the lines of the footnote region of a page
\* never changes the state of the TOC matcher, which after the construction
\* is the matcher as the body lines left it.
C25_MatcherKeptAsStated ==
    (spage.built /\ spage.err = "") => tm = C25_Body.tm

\* C25: classifying a line of the footnote region of a page changes the
\* state of the TOC matcher exactly when the line is classified as the next
\* title of the TOC, which takes that entry off the matcher; every other
\* footnote line leaves the matcher as it was.
C25_MatcherKept ==
    (spage.built /\ spage.err = "" /\ ~spage.reworked /\ ~spage.placed) =>
        C25_Lines(C25_Body.i + 1, C25_Body.tm, << >>, -1)

\* the title of the first TOC entry in footnote 1: a heading of the
\* footnote, and the entry is gone from the matcher
C25_Witness ==
    /\ spage.built /\ spage.err = "" /\ ~spage.reworked /\ ~spage.placed
    /\ spage.content = << "  1) one", "", "  Scope" >>
    /\ Len(toc) = 2
    /\ Len(spage.elements) = 0
    /\ Len(spage.footnotes[1].elements) = 2
    /\ spage.footnotes[1].elements[2].type = "TitleHeading"
    /\ Len(tm.titlestack) = 1
    /\ Len(C25_Body.tm.titlestack) = 2

(***************************************************************************)
(* C26: the ids recorded in the footnote sets                              *)
(***************************************************************************)
\* the string has a reference to footnote n itself: the digits of n and a
\* ')' with no digit before them
C26_Refers(s, n) ==
    \E p \in 1..Len(s) :
        /\ startswith(From(s, p - 1), str(n) \o ")")
        /\ p = 1 \/ Ch(s, p - 1) \notin DIGITS

\* C26: after putfootnoteplaceholders the footnote set of an element holds
\* the id n only if the text of the element before the call had a reference
\* to footnote n itself, the digits of n followed by ')' and not preceded by
\* a further digit.
C26_OwnReferencesOnly ==
    [][C20_Step =>
           \A k \in 1..Len(spage.elements) :
               \A n \in spage'.elements[k].footnotes
                           \ spage.elements[k].footnotes :
                   \/ C26_Refers(spage.elements[k].content, n)
                   \/ \E i \in 1..Len(spage.elements[k].lines) :
                         C26_Refers(spage.elements[k].lines[i], n)]_vars

(***************************************************************************)
(* C29: the margin of the lines of a Page given to the classifier          *)
(***************************************************************************)
\* the margin columns of the line are neither blank nor an integer, which
\* is when _parselinewithindent raises ValueError
C29_MarginFails(line, indent) ==
    /\ indent > 0
    /\ line # ""
    /\ ~isspace(Slice(line, 0, indent))
    /\ ~isint(Slice(line, 0, indent))

\* C29: for a StructuredPage built from a Page with the indent that the Page
\* computed, the margin columns of every content line are all whitespace
\* or parse as an integer, and the construction does not raise the
\* ValueError of a margin that does not parse.
C29_MarginParses ==
    (upage.built /\ spage.built) =>
        /\ spage.indent = upage.page.indent
        /\ \A k \in 1..Len(spage.content) :
              ~C29_MarginFails(spage.content[k], spage.indent)
        /\ spage.err # "ValueError"

\* a Page of margin 1 whose first line has the number 1 in the margin: the
\* line starts a numbered paragraph
C29_Witness ==
    /\ upage.built /\ spage.built /\ spage.err = ""
    /\ spage.content = << "1_2 x", "  3" >>
    /\ spage.indent = 1
    /\ Len(spage.elements) = 1
    /\ spage.elements[1].type = "NumberedParagraph"
    /\ spage.elements[1].number = 1

====
